---------------------------- MODULE Spec2Model ----------------------------
(***************************************************************************)
(* Model of visualfurnitura/hardware_calculator.py: the HardwareCalculator *)
(* object (profile registry, template table) and its calculation methods,  *)
(* and of visualfurnitura/db_manager.py: the DBManager object over its     *)
(* SQLite file (tables hardware_components and profile_systems).           *)
(*                                                                         *)
(* Representation of Python values:                                        *)
(*   - a number (int or float) is an exact rational [n |-> , d |-> ] in    *)
(*     lowest terms with d > 0; float literals such as 0.05 are the        *)
(*     rationals they denote (1/20), so float rounding is abstracted;      *)
(*   - a str is [s |-> the tuple of its Unicode code points];              *)
(*   - None is the record [none |-> TRUE];                                 *)
(*   - a dict with literal keys is a function whose DOMAIN is the set of   *)
(*     keys present; a list is a sequence;                                 *)
(*   - a call either returns (Ret) or raises (Raise).                      *)
(***************************************************************************)
EXTENDS Integers, Sequences, FiniteSets, TLC

VARIABLES
    profile_systems,     \* self.profile_systems : name -> ProfileSystem
    hardware_templates,  \* self.hardware_templates : category -> rule list
    registered,          \* log of the profiles passed to add_profile_system
    call,                \* the most recent operation and its arguments
    result,              \* what that operation returned or raised
    db_hardware_components,  \* table hardware_components : id -> row
    db_profile_systems,  \* table profile_systems : id -> row
    db_sequence,         \* sqlite_sequence : table name -> largest id given
    db_write_lock,       \* an unclosed connection holds the write lock
    db_now,              \* CURRENT_TIMESTAMP
    db_added             \* id -> data of add_hardware_component, while the
                         \* id was passed to no update and no delete

calc_vars == <<profile_systems, hardware_templates, registered>>

db_vars ==
    <<db_hardware_components, db_profile_systems, db_sequence,
      db_write_lock, db_now, db_added>>

vars == <<calc_vars, call, result, db_vars>>

---------------------------------------------------------------------------
(* Bounds of the model *)

MaxAdds == 2
MaxItems == 2
MaxCount == 4
MaxComponents == 2
MaxProfiles == 2
MaxTime == 1

---------------------------------------------------------------------------
(* Python values *)

None == [none |-> TRUE]

Ret(v) == [ok |-> TRUE, value |-> v]

Raise(e) == [ok |-> FALSE, exc |-> e]

Abs(i) == IF i < 0 THEN -i ELSE i

RECURSIVE GCD(_, _)
GCD(a, b) == IF b = 0 THEN a ELSE GCD(b, a % b)

\* the rational n/d in lowest terms, d # 0
R(n, d) ==
    LET g == GCD(Abs(n), Abs(d))
        s == IF d < 0 THEN -1 ELSE 1
    IN  [n |-> (s * n) \div g, d |-> (s * d) \div g]

Whole(i) == [n |-> i, d |-> 1]

IsNum(v) == DOMAIN v = {"n", "d"}

RAdd(a, b) == R(a.n * b.d + b.n * a.d, a.d * b.d)

RSub(a, b) == R(a.n * b.d - b.n * a.d, a.d * b.d)

RMul(a, b) == R(a.n * b.n, a.d * b.d)

\* a / b for b # 0 (every division in the source has a non-zero divisor
\* on the path that evaluates it)
RDiv(a, b) == R(a.n * b.d, a.d * b.n)

RLeq(a, b) == a.n * b.d <= b.n * a.d

\* dict.get(key, default)
Get(d, key, default) == IF key \in DOMAIN d THEN d[key] ELSE default

Str(codepoints) == [s |-> codepoints]

IsStr(v) == DOMAIN v = {"s"}

\* a + b for two strs, and the pieces of an f-string
Concat(a, b) == Str(a.s \o b.s)

\* the decimal digits of an int n >= 0
RECURSIVE Digits(_)
Digits(n) ==
    IF n < 10 THEN <<48 + n>> ELSE Digits(n \div 10) \o <<48 + (n % 10)>>

\* str(n) for an int n >= 0
IntToStr(n) == Str(Digits(n))

\* str.lower() on one code point: A-Z, the Cyrillic capitals U+0410..U+042F
\* and U+0400..U+040F
LowerChar(c) ==
    IF c >= 65 /\ c <= 90 THEN c + 32
    ELSE IF c >= 1040 /\ c <= 1071 THEN c + 32
    ELSE IF c >= 1024 /\ c <= 1039 THEN c + 80
    ELSE c

Lower(str) == Str([i \in 1..Len(str.s) |-> LowerChar(str.s[i])])

\* the Python expression  sub in s  for two strs
Contains(str, sub) ==
    \E k \in 0..(Len(str.s) - Len(sub.s)) :
        SubSeq(str.s, k + 1, k + Len(sub.s)) = sub.s

---------------------------------------------------------------------------
(* String literals of the source, as code points *)

S_hinge == Str(<<104, 105, 110, 103, 101>>)
S_handle == Str(<<104, 97, 110, 100, 108, 101>>)
S_lock == Str(<<108, 111, 99, 107>>)
S_sill == Str(<<115, 105, 108, 108>>)
S_corner == Str(<<99, 111, 114, 110, 101, 114>>)
S_other == Str(<<111, 116, 104, 101, 114>>)
\* template item names: "Petlya verkhnyaya", "Petlya srednyaya",
\* "Petlya nizhnyaya", "Ruchka", "Zamok", "Otliv" (Cyrillic, capitalised)
N_petlya_verkhnyaya == Str(<<1055, 1077, 1090, 1083, 1103, 32, 1074, 1077, 1088, 1093, 1085, 1103, 1103>>)
N_petlya_srednyaya == Str(<<1055, 1077, 1090, 1083, 1103, 32, 1089, 1088, 1077, 1076, 1085, 1103, 1103>>)
N_petlya_nizhnyaya == Str(<<1055, 1077, 1090, 1083, 1103, 32, 1085, 1080, 1078, 1085, 1103, 1103>>)
N_ruchka == Str(<<1056, 1091, 1095, 1082, 1072>>)
N_zamok == Str(<<1047, 1072, 1084, 1086, 1082>>)
N_otliv == Str(<<1054, 1090, 1083, 1080, 1074>>)
\* classification keywords (Cyrillic ones are lower case in the source)
K_petlya == Str(<<1087, 1077, 1090, 1083, 1103>>)
K_sharnir == Str(<<1096, 1072, 1088, 1085, 1080, 1088>>)
K_ruchka == Str(<<1088, 1091, 1095, 1082, 1072>>)
K_knob == Str(<<1082, 1085, 1086, 1073>>)
K_zamok == Str(<<1079, 1072, 1084, 1086, 1082>>)
K_zasov == Str(<<1079, 1072, 1089, 1086, 1074>>)
K_otliv == Str(<<1086, 1090, 1083, 1080, 1074>>)
K_podokonnik == Str(<<1087, 1086, 1076, 1086, 1082, 1086, 1085, 1085, 1080, 1082>>)
K_ugol == Str(<<1091, 1075, 1086, 1083>>)
\* "HW-", "Komponent-" (Cyrillic), "N/A", "Unknown", "-", " ", ""
S_HW == Str(<<72, 87, 45>>)
S_Komponent == Str(<<1050, 1086, 1084, 1087, 1086, 1085, 1077, 1085, 1090, 45>>)
S_NA == Str(<<78, 47, 65>>)
S_Unknown == Str(<<85, 110, 107, 110, 111, 119, 110>>)
S_dash == Str(<<45>>)
S_space == Str(<<32>>)
S_empty == Str(<<>>)

---------------------------------------------------------------------------
(* HardwareCalculator *)

HardwarePlacement(article, name, x, y, rotation, notes) ==
    [article |-> article, name |-> name, x |-> x, y |-> y,
     rotation |-> rotation, notes |-> notes]

\* the table built by _initialize_default_templates
DefaultTemplates ==
    (S_hinge :> <<
        [name |-> N_petlya_verkhnyaya, x_offset |-> R(5, 100),
         y_offset |-> R(5, 100), type |-> "position"],
        [name |-> N_petlya_srednyaya, x_offset |-> R(5, 100),
         y_offset |-> R(5, 10), type |-> "position"],
        [name |-> N_petlya_nizhnyaya, x_offset |-> R(5, 100),
         y_offset |-> R(95, 100), type |-> "position"] >>)
    @@ (S_handle :> <<
        [name |-> N_ruchka, x_offset |-> R(5, 10),
         y_offset |-> R(75, 100), type |-> "position"] >>)
    @@ (S_lock :> <<
        [name |-> N_zamok, x_offset |-> R(95, 100),
         y_offset |-> R(5, 10), type |-> "position"] >>)
    @@ (S_sill :> <<
        [name |-> N_otliv, x_offset |-> Whole(0), y_offset |-> R(99, 100),
         width_ratio |-> Whole(1), height_ratio |-> R(1, 100),
         type |-> "dimension"] >>)

\* mutant: the position rule with width and height exchanged
PositionRule_swapped(item, placements, window_width, window_height, hardware_type) ==
    LET x == RMul(window_height, item.x_offset)
        y == RMul(window_width, item.y_offset)
    IN  Append(placements,
               HardwarePlacement(
                   Concat(hardware_type,
                          Concat(S_dash, IntToStr(Len(placements) + 1))),
                   item.name, x, y, Whole(0), S_empty))

\* mutant: a position rule scales both axes by x_offset
PositionRule_sharedOffset(item, placements, window_width, window_height, hardware_type) ==
    LET x == RMul(window_width, item.x_offset)
        y == RMul(window_height, item.x_offset)
    IN  Append(placements,
               HardwarePlacement(
                   Concat(hardware_type,
                          Concat(S_dash, IntToStr(Len(placements) + 1))),
                   item.name, x, y, Whole(0), S_empty))

\* mutant: articles are numbered from 0
PositionRule_zeroBased(item, placements, window_width, window_height, hardware_type) ==
    LET x == RMul(window_width, item.x_offset)
        y == RMul(window_height, item.y_offset)
    IN  Append(placements,
               HardwarePlacement(
                   Concat(hardware_type,
                          Concat(S_dash, IntToStr(Len(placements)))),
                   item.name, x, y, Whole(0), S_empty))

\* mutant: a dimension rule emits the top-left corner of its box
DimensionRule_topLeft(item, placements, window_width, window_height, hardware_type) ==
    LET x == RMul(window_width, Get(item, "x_offset", Whole(0)))
        y == RMul(window_height, Get(item, "y_offset", Whole(0)))
    IN  Append(placements,
               HardwarePlacement(
                   Concat(hardware_type,
                          Concat(S_dash, IntToStr(Len(placements) + 1))),
                   item.name, x, y, Whole(0), S_empty))

\* one iteration of the loop of calculate_hardware_placement over a
\* position rule
PositionRule(item, placements, window_width, window_height, hardware_type) ==
    LET x == RMul(window_width, item.x_offset)
        y == RMul(window_height, item.y_offset)
    IN  Append(placements,
               HardwarePlacement(
                   Concat(hardware_type,
                          Concat(S_dash, IntToStr(Len(placements) + 1))),
                   item.name, x, y, Whole(0), S_empty))

\* one iteration of the loop of calculate_hardware_placement over a
\* dimension rule
DimensionRule(item, placements, window_width, window_height, hardware_type) ==
    LET x == RMul(window_width, Get(item, "x_offset", Whole(0)))
        y == RMul(window_height, Get(item, "y_offset", Whole(0)))
        width == RMul(window_width, Get(item, "width_ratio", R(1, 10)))
        height == RMul(window_height, Get(item, "height_ratio", R(5, 100)))
        center_x == RAdd(x, RDiv(width, Whole(2)))
        center_y == RAdd(y, RDiv(height, Whole(2)))
    IN  Append(placements,
               HardwarePlacement(
                   Concat(hardware_type,
                          Concat(S_dash, IntToStr(Len(placements) + 1))),
                   item.name, center_x, center_y, Whole(0), S_empty))

\* the loop  for item in template  of calculate_hardware_placement, from
\* the i-th item on
RECURSIVE TemplateLoop(_, _, _, _, _, _)
TemplateLoop(template, i, placements, window_width, window_height, hardware_type) ==
    IF i > Len(template) THEN placements
    ELSE LET item == template[i]
             next ==
                 IF item.type = "position"
                 THEN PositionRule(item, placements, window_width,
                                   window_height, hardware_type)
                 ELSE IF item.type = "dimension"
                 THEN DimensionRule(item, placements, window_width,
                                    window_height, hardware_type)
                 ELSE placements
         IN  TemplateLoop(template, i + 1, next, window_width,
                          window_height, hardware_type)

\* the up-front check shared by every calculation method
ProfileKnown(profiles, profile_name) == profile_name \in DOMAIN profiles

\* mutant: the template is indexed (templates[hardware_type]) instead of
\* looked up with a default
calculate_hardware_placement_indexed(profiles, templates, window_width, window_height, profile_name, hardware_type) ==
    IF ~ProfileKnown(profiles, profile_name) THEN Raise("ValueError")
    ELSE IF hardware_type \notin DOMAIN templates THEN Raise("KeyError")
    ELSE Ret(TemplateLoop(templates[hardware_type], 1, <<>>, window_width,
                          window_height, hardware_type))

calculate_hardware_placement(profiles, templates, window_width, window_height, profile_name, hardware_type) ==
    IF ~ProfileKnown(profiles, profile_name) THEN Raise("ValueError")
    ELSE LET template == Get(templates, hardware_type, <<>>)
         IN  Ret(TemplateLoop(template, 1, <<>>, window_width,
                              window_height, hardware_type))

\* mutant: the absolute value is tested for truth instead of against None,
\* so an absolute 0 counts as absent
calculate_position_truthy(absolute_pos, relative_offset, dimension) ==
    IF absolute_pos # None /\ absolute_pos # Whole(0) THEN absolute_pos
    ELSE IF relative_offset # None THEN RMul(dimension, relative_offset)
    ELSE Whole(0)

\* _calculate_position
calculate_position(absolute_pos, relative_offset, dimension) ==
    IF absolute_pos # None THEN absolute_pos
    ELSE IF relative_offset # None THEN RMul(dimension, relative_offset)
    ELSE Whole(0)

\* the body of the loop  for spec in hardware_specs
CustomItem(spec, placements, window_width, window_height) ==
    LET x == calculate_position(Get(spec, "x", None),
                                Get(spec, "x_offset", None), window_width)
        y == calculate_position(Get(spec, "y", None),
                                Get(spec, "y_offset", None), window_height)
    IN  Append(placements,
               HardwarePlacement(
                   Get(spec, "article",
                       Concat(S_HW, IntToStr(Len(placements) + 1))),
                   Get(spec, "name",
                       Concat(S_Komponent, IntToStr(Len(placements) + 1))),
                   x, y, Get(spec, "rotation", Whole(0)),
                   Get(spec, "notes", S_empty)))

RECURSIVE CustomLoop(_, _, _, _, _)
CustomLoop(hardware_specs, i, placements, window_width, window_height) ==
    IF i > Len(hardware_specs) THEN placements
    ELSE CustomLoop(hardware_specs, i + 1,
                    CustomItem(hardware_specs[i], placements, window_width,
                               window_height),
                    window_width, window_height)

\* mutant: the looked-up profile's axis_offset shifts every x
calculate_custom_placement_axisOffset(profiles, window_width, window_height, profile_name, hardware_specs) ==
    IF ~ProfileKnown(profiles, profile_name) THEN Raise("ValueError")
    ELSE LET placements == CustomLoop(hardware_specs, 1, <<>>, window_width,
                                      window_height)
             profile == profiles[profile_name]
         IN  Ret([i \in DOMAIN placements |->
                    [placements[i] EXCEPT
                        !.x = RAdd(@, profile.axis_offset)]])

calculate_custom_placement(profiles, window_width, window_height, profile_name, hardware_specs) ==
    IF ~ProfileKnown(profiles, profile_name) THEN Raise("ValueError")
    ELSE Ret(CustomLoop(hardware_specs, 1, <<>>, window_width,
                        window_height))

\* range(count) as the sequence 0, 1, .., count-1 (empty for count <= 0)
Range(count) == IF count <= 0 THEN <<>> ELSE [i \in 1..count |-> i - 1]

\* mutant: the step divides by count instead of count - 1
Positions_stepByCount(dimension, count) ==
    IF count = 1 THEN <<RDiv(dimension, Whole(2))>>
    ELSE LET margin == RMul(R(5, 100), dimension)
             step == IF count > 1
                     THEN RDiv(RSub(dimension, RMul(Whole(2), margin)),
                               Whole(count))
                     ELSE Whole(0)
             rng == Range(count)
         IN  [k \in DOMAIN rng |-> RAdd(margin, RMul(Whole(rng[k]), step))]

\* mutant: no special case for count = 1
Positions_noSingle(dimension, count) ==
    LET margin == RMul(R(5, 100), dimension)
        step == IF count > 1
                THEN RDiv(RSub(dimension, RMul(Whole(2), margin)),
                          Whole(count - 1))
                ELSE Whole(0)
        rng == Range(count)
    IN  [k \in DOMAIN rng |-> RAdd(margin, RMul(Whole(rng[k]), step))]

\* mutant: the step spans the whole dimension, the margins not subtracted
Positions_fullStep(dimension, count) ==
    IF count = 1 THEN <<RDiv(dimension, Whole(2))>>
    ELSE LET margin == RMul(R(5, 100), dimension)
             step == IF count > 1
                     THEN RDiv(dimension, Whole(count - 1))
                     ELSE Whole(0)
             rng == Range(count)
         IN  [k \in DOMAIN rng |-> RAdd(margin, RMul(Whole(rng[k]), step))]

\* mutant: every count up to 1 takes the single-item branch
Positions_atMostOne(dimension, count) ==
    IF count <= 1 THEN <<RDiv(dimension, Whole(2))>>
    ELSE LET margin == RMul(R(5, 100), dimension)
             step == RDiv(RSub(dimension, RMul(Whole(2), margin)),
                          Whole(count - 1))
             rng == Range(count)
         IN  [k \in DOMAIN rng |-> RAdd(margin, RMul(Whole(rng[k]), step))]

\* x_positions (alignment horizontal) resp. y_positions (vertical): the
\* coordinates distributed along a window dimension
Positions(dimension, count) ==
    IF count = 1 THEN <<RDiv(dimension, Whole(2))>>
    ELSE LET margin == RMul(R(5, 100), dimension)
             step == IF count > 1
                     THEN RDiv(RSub(dimension, RMul(Whole(2), margin)),
                               Whole(count - 1))
                     ELSE Whole(0)
             rng == Range(count)
         IN  [k \in DOMAIN rng |-> RAdd(margin, RMul(Whole(rng[k]), step))]

\* the placement built for enumerate index i (0-based) at (x, y)
SymmetricItem(hardware_article, hardware_name, i, x, y) ==
    HardwarePlacement(Concat(hardware_article,
                             Concat(S_dash, IntToStr(i + 1))),
                      Concat(hardware_name,
                             Concat(S_space, IntToStr(i + 1))),
                      x, y, Whole(0), S_empty)

\* mutant: the vertical branch spreads along the window width
SymmetricPlacements_verticalByWidth(window_width, window_height, hardware_article, hardware_name, count, alignment) ==
    IF alignment = "horizontal"
    THEN LET x_positions == Positions(window_width, count)
         IN  [k \in DOMAIN x_positions |->
                SymmetricItem(hardware_article, hardware_name, k - 1,
                              x_positions[k],
                              RDiv(window_height, Whole(2)))]
    ELSE IF alignment = "vertical"
    THEN LET y_positions == Positions(window_width, count)
         IN  [k \in DOMAIN y_positions |->
                SymmetricItem(hardware_article, hardware_name, k - 1,
                              RDiv(window_width, Whole(2)),
                              y_positions[k])]
    ELSE <<>>

\* the body of calculate_symmetric_placement after the profile check
SymmetricPlacements(window_width, window_height, hardware_article, hardware_name, count, alignment) ==
    IF alignment = "horizontal"
    THEN LET x_positions == Positions(window_width, count)
         IN  [k \in DOMAIN x_positions |->
                SymmetricItem(hardware_article, hardware_name, k - 1,
                              x_positions[k],
                              RDiv(window_height, Whole(2)))]
    ELSE IF alignment = "vertical"
    THEN LET y_positions == Positions(window_height, count)
         IN  [k \in DOMAIN y_positions |->
                SymmetricItem(hardware_article, hardware_name, k - 1,
                              RDiv(window_width, Whole(2)),
                              y_positions[k])]
    ELSE <<>>

\* mutant: the empty result for count <= 0 is returned before the profile
\* is checked
calculate_symmetric_placement_lateCheck(profiles, window_width, window_height, profile_name, hardware_article, hardware_name, count, alignment) ==
    IF count <= 0 THEN Ret(<<>>)
    ELSE IF ~ProfileKnown(profiles, profile_name) THEN Raise("ValueError")
    ELSE Ret(SymmetricPlacements(window_width, window_height,
                                 hardware_article, hardware_name, count,
                                 alignment))

calculate_symmetric_placement(profiles, window_width, window_height, profile_name, hardware_article, hardware_name, count, alignment) ==
    IF ~ProfileKnown(profiles, profile_name) THEN Raise("ValueError")
    ELSE Ret(SymmetricPlacements(window_width, window_height,
                                 hardware_article, hardware_name, count,
                                 alignment))

---------------------------------------------------------------------------
(* The distributed coordinates as the floats the interpreter computes *)

\* The operators above compute in exact rationals, the values the float
\* expressions of the source approximate.  The operators below compute the
\* floats themselves: a Python float is an IEEE 754 binary64 number, and
\* each of *, /, + and - returns the exact result rounded to the nearest
\* float, a tie going to the even significand.

\* the binary digits of a natural number, least significant first, the
\* last digit 1; <<>> is zero
RECURSIVE Bits(_)
Bits(n) == IF n = 0 THEN <<>> ELSE <<n % 2>> \o Bits(n \div 2)

\* the number of a short digit sequence
RECURSIVE Value(_)
Value(bits) == IF bits = <<>> THEN 0 ELSE bits[1] + 2 * Value(Tail(bits))

Zeros(k) == [i \in 1..k |-> 0]

\* without the zeros above the highest 1
Trim(bits) ==
    LET top == CHOOSE i \in 0..Len(bits) :
                   /\ i = 0 \/ bits[i] = 1
                   /\ \A j \in (i + 1)..Len(bits) : bits[j] = 0
    IN  SubSeq(bits, 1, top)

\* The long arithmetic works on limbs of LimbBits digits, which keeps every
\* intermediate number within the integers of the checker.
LimbBits == 13

Base == 2 ^ LimbBits

Limb(a, i) == IF i <= Len(a) THEN a[i] ELSE 0

Pack(bits) ==
    [n \in 1..((Len(bits) + LimbBits - 1) \div LimbBits) |->
        Value(SubSeq(bits, LimbBits * (n - 1) + 1,
                     IF LimbBits * n < Len(bits) THEN LimbBits * n
                     ELSE Len(bits)))]

Unpack(limbs) ==
    Trim([j \in 1..(LimbBits * Len(limbs)) |->
            (limbs[(j - 1) \div LimbBits + 1]
                \div (2 ^ ((j - 1) % LimbBits))) % 2])

RECURSIVE AddFrom(_, _, _, _)
AddFrom(a, b, i, carry) ==
    IF i > Len(a) /\ i > Len(b) THEN <<carry>>
    ELSE LET t == Limb(a, i) + Limb(b, i) + carry
         IN  <<t % Base>> \o AddFrom(a, b, i + 1, t \div Base)

BitsAdd(a, b) == Unpack(AddFrom(Pack(a), Pack(b), 1, 0))

RECURSIVE SubFrom(_, _, _, _)
SubFrom(a, b, i, borrow) ==
    IF i > Len(a) THEN <<>>
    ELSE LET t == Limb(a, i) - Limb(b, i) - borrow
         IN  <<(t + Base) % Base>>
             \o SubFrom(a, b, i + 1, IF t < 0 THEN 1 ELSE 0)

\* a - b for a >= b
BitsSub(a, b) == Unpack(SubFrom(Pack(a), Pack(b), 1, 0))

RECURSIVE MulFrom(_, _, _, _)
MulFrom(a, k, i, carry) ==
    IF i > Len(a) THEN <<carry>>
    ELSE LET t == a[i] * k + carry
         IN  <<t % Base>> \o MulFrom(a, k, i + 1, t \div Base)

\* a * k for an int 0 <= k < Base
BitsMul(a, k) == Unpack(MulFrom(Pack(a), k, 1, 0))

\* long division from the highest limb i down: rem is the running
\* remainder and q the quotient limbs found so far
RECURSIVE DivFrom(_, _, _, _, _)
DivFrom(a, k, i, rem, q) ==
    IF i = 0 THEN [q |-> Unpack(q), r |-> rem]
    ELSE LET t == rem * Base + a[i]
         IN  DivFrom(a, k, i - 1, t % k, <<t \div k>> \o q)

\* quotient and remainder of a by an int 0 < k < Base
BitsDiv(a, k) == LET limbs == Pack(a) IN DivFrom(limbs, k, Len(limbs), 0, <<>>)

BitsLeq(a, b) ==
    \/ Len(a) < Len(b)
    \/ /\ Len(a) = Len(b)
       /\ \A i \in 1..Len(a) :
              a[i] > b[i] => \E j \in (i + 1)..Len(a) : a[j] < b[j]

\* the digits of a binary64 significand
Precision == 53

\* digits kept below the significand of a quotient, so that the rounding
\* sees the digit after the last and whether anything follows it
Guard == 14

\* the float 0.0
Zero64 == [m |-> <<>>, e |-> 0]

\* The float nearest to bits * 2^e, or to a value strictly between that
\* and (bits + 1) * 2^e when sticky.  A float is [m, e], the number
\* m * 2^e with m of exactly Precision digits (zero aside).  The numbers of
\* this calculation stay far from the overflow and the subnormal range.
Round64(bits, e, sticky) ==
    LET L == Len(bits)
    IN  IF L = 0 THEN Zero64
        ELSE IF L <= Precision
        THEN [m |-> Zeros(Precision - L) \o bits, e |-> e - (Precision - L)]
        ELSE LET s == L - Precision
                 q == SubSeq(bits, s + 1, L)
                 low == sticky \/ \E j \in 1..(s - 1) : bits[j] = 1
                 up == bits[s] = 1 /\ (low \/ q[1] = 1)
                 r == IF up THEN BitsAdd(q, <<1>>) ELSE q
             IN  IF Len(r) > Precision
                 THEN [m |-> SubSeq(r, 2, Len(r)), e |-> e + s + 1]
                 ELSE [m |-> r, e |-> e + s]

\* float(n) for an int n >= 0
FromInt(n) == Round64(Bits(n), 0, FALSE)

\* the literal 0.05: 0x1.999999999999ap-5
Literal_0_05 ==
    [m |-> <<0, 1, 0, 1>>
           \o [i \in 1..48 |-> IF i % 4 \in {1, 0} THEN 1 ELSE 0]
           \o <<1>>,
     e |-> -57]

\* x * k and k * x for a float x >= 0 and an int k >= 0
Times64(x, k) == Round64(BitsMul(x.m, k), x.e, FALSE)

\* x / k for a float x >= 0 and an int k > 0
Over64(x, k) ==
    LET d == BitsDiv(Zeros(Guard) \o x.m, k)
    IN  Round64(d.q, x.e - Guard, d.r # 0)

\* the digits of x at the exponent e <= x.e
Aligned(x, e) == IF x.m = <<>> THEN <<>> ELSE Zeros(x.e - e) \o x.m

LowerExponent(x, y) ==
    IF x.m = <<>> THEN y.e
    ELSE IF y.m = <<>> THEN x.e
    ELSE IF x.e < y.e THEN x.e ELSE y.e

\* x + y for floats x, y >= 0
Plus64(x, y) ==
    LET e == LowerExponent(x, y)
    IN  Round64(BitsAdd(Aligned(x, e), Aligned(y, e)), e, FALSE)

Leq64(x, y) ==
    LET e == LowerExponent(x, y)
    IN  BitsLeq(Aligned(x, e), Aligned(y, e))

\* x - y for floats x >= y >= 0
Minus64(x, y) ==
    LET e == LowerExponent(x, y)
    IN  Round64(BitsSub(Aligned(x, e), Aligned(y, e)), e, FALSE)

\* mutant: the margin is taken off one end only
Positions64_oneMargin(dimension, count) ==
    IF count = 1 THEN <<Over64(FromInt(dimension), 2)>>
    ELSE LET margin == Times64(Literal_0_05, dimension)
             step == IF count > 1
                     THEN Over64(Minus64(FromInt(dimension), margin),
                                 count - 1)
                     ELSE Zero64
             rng == Range(count)
         IN  [k \in DOMAIN rng |-> Plus64(margin, Times64(step, rng[k]))]

\* x_positions resp. y_positions as floats, for an int dimension > 0
Positions64(dimension, count) ==
    IF count = 1 THEN <<Over64(FromInt(dimension), 2)>>
    ELSE LET margin == Times64(Literal_0_05, dimension)
             step == IF count > 1
                     THEN Over64(Minus64(FromInt(dimension),
                                         Times64(margin, 2)),
                                 count - 1)
                     ELSE Zero64
             rng == Range(count)
         IN  [k \in DOMAIN rng |-> Plus64(margin, Times64(step, rng[k]))]

\* the body of calculate_symmetric_placement after the profile check, in
\* floats, for a window of int dimensions > 0
SymmetricPlacements64(window_width, window_height, hardware_article, hardware_name, count, alignment) ==
    IF alignment = "horizontal"
    THEN LET x_positions == Positions64(window_width, count)
         IN  [k \in DOMAIN x_positions |->
                SymmetricItem(hardware_article, hardware_name, k - 1,
                              x_positions[k],
                              Over64(FromInt(window_height), 2))]
    ELSE IF alignment = "vertical"
    THEN LET y_positions == Positions64(window_height, count)
         IN  [k \in DOMAIN y_positions |->
                SymmetricItem(hardware_article, hardware_name, k - 1,
                              Over64(FromInt(window_width), 2),
                              y_positions[k])]
    ELSE <<>>

calculate_symmetric_placement64(profiles, window_width, window_height, profile_name, hardware_article, hardware_name, count, alignment) ==
    IF ~ProfileKnown(profiles, profile_name) THEN Raise("ValueError")
    ELSE Ret(SymmetricPlacements64(window_width, window_height,
                                   hardware_article, hardware_name, count,
                                   alignment))

\* any(word in name_lower for word in words)
AnyWord(name_lower, words) == \E word \in words : Contains(name_lower, word)

\* mutant: the lock keywords are tested before the handle keywords
categorize_hardware_type_lockFirst(hardware_name) ==
    IF ~IsStr(hardware_name) THEN Raise("AttributeError")
    ELSE LET name_lower == Lower(hardware_name)
         IN  IF AnyWord(name_lower, {K_petlya, S_hinge, K_sharnir})
             THEN Ret(S_hinge)
             ELSE IF AnyWord(name_lower, {K_zamok, S_lock, K_zasov})
             THEN Ret(S_lock)
             ELSE IF AnyWord(name_lower, {K_ruchka, S_handle, K_knob})
             THEN Ret(S_handle)
             ELSE IF AnyWord(name_lower, {K_otliv, S_sill, K_podokonnik})
             THEN Ret(S_sill)
             ELSE IF AnyWord(name_lower, {K_ugol, S_corner})
             THEN Ret(S_corner)
             ELSE Ret(S_other)

\* mutant: the keywords are looked for in the name as written
categorize_hardware_type_caseSensitive(hardware_name) ==
    IF ~IsStr(hardware_name) THEN Raise("AttributeError")
    ELSE LET name_lower == hardware_name
         IN  IF AnyWord(name_lower, {K_petlya, S_hinge, K_sharnir})
             THEN Ret(S_hinge)
             ELSE IF AnyWord(name_lower, {K_ruchka, S_handle, K_knob})
             THEN Ret(S_handle)
             ELSE IF AnyWord(name_lower, {K_zamok, S_lock, K_zasov})
             THEN Ret(S_lock)
             ELSE IF AnyWord(name_lower, {K_otliv, S_sill, K_podokonnik})
             THEN Ret(S_sill)
             ELSE IF AnyWord(name_lower, {K_ugol, S_corner})
             THEN Ret(S_corner)
             ELSE Ret(S_other)

\* _categorize_hardware_type; .lower() of a value that is no str (None)
\* raises AttributeError
categorize_hardware_type(hardware_name) ==
    IF ~IsStr(hardware_name) THEN Raise("AttributeError")
    ELSE LET name_lower == Lower(hardware_name)
         IN  IF AnyWord(name_lower, {K_petlya, S_hinge, K_sharnir})
             THEN Ret(S_hinge)
             ELSE IF AnyWord(name_lower, {K_ruchka, S_handle, K_knob})
             THEN Ret(S_handle)
             ELSE IF AnyWord(name_lower, {K_zamok, S_lock, K_zasov})
             THEN Ret(S_lock)
             ELSE IF AnyWord(name_lower, {K_otliv, S_sill, K_podokonnik})
             THEN Ret(S_sill)
             ELSE IF AnyWord(name_lower, {K_ugol, S_corner})
             THEN Ret(S_corner)
             ELSE Ret(S_other)

\* mutant: one coordinate is enough for the branch of explicit coordinates
PdfItem_anyCoordinate(profiles, templates, hw_item, window_width, window_height, profile_name) ==
    LET x == Get(hw_item, "x_position", None)
        y == Get(hw_item, "y_position", None)
        article == Get(hw_item, "article", S_NA)
        name == Get(hw_item, "name", S_Unknown)
        notes == Get(hw_item, "notes", S_empty)
    IN  IF x # None \/ y # None
        THEN Ret(HardwarePlacement(article, name, x, y,
                                   Get(hw_item, "rotation", Whole(0)),
                                   notes))
        ELSE LET hw_type ==
                     categorize_hardware_type(Get(hw_item, "name", S_empty))
             IN  IF ~hw_type.ok THEN hw_type
                 ELSE LET default_placements ==
                              calculate_hardware_placement(
                                  profiles, templates, window_width,
                                  window_height, profile_name, hw_type.value)
                      IN  IF ~default_placements.ok THEN default_placements
                          ELSE IF default_placements.value # <<>>
                          THEN LET default_placement ==
                                       default_placements.value[1]
                               IN  Ret(HardwarePlacement(
                                       article, name, default_placement.x,
                                       default_placement.y,
                                       default_placement.rotation, notes))
                          ELSE Ret(HardwarePlacement(
                                       article, name,
                                       RDiv(window_width, Whole(2)),
                                       RDiv(window_height, Whole(2)),
                                       Whole(0), notes))

\* mutant: the fallback takes the last default placement, not the first
PdfItem_lastDefault(profiles, templates, hw_item, window_width, window_height, profile_name) ==
    LET x == Get(hw_item, "x_position", None)
        y == Get(hw_item, "y_position", None)
        article == Get(hw_item, "article", S_NA)
        name == Get(hw_item, "name", S_Unknown)
        notes == Get(hw_item, "notes", S_empty)
    IN  IF x # None /\ y # None
        THEN Ret(HardwarePlacement(article, name, x, y,
                                   Get(hw_item, "rotation", Whole(0)),
                                   notes))
        ELSE LET hw_type ==
                     categorize_hardware_type(Get(hw_item, "name", S_empty))
             IN  IF ~hw_type.ok THEN hw_type
                 ELSE LET default_placements ==
                              calculate_hardware_placement(
                                  profiles, templates, window_width,
                                  window_height, profile_name, hw_type.value)
                      IN  IF ~default_placements.ok THEN default_placements
                          ELSE IF default_placements.value # <<>>
                          THEN LET default_placement ==
                                       default_placements.value[
                                           Len(default_placements.value)]
                               IN  Ret(HardwarePlacement(
                                       article, name, default_placement.x,
                                       default_placement.y,
                                       default_placement.rotation, notes))
                          ELSE Ret(HardwarePlacement(
                                       article, name,
                                       RDiv(window_width, Whole(2)),
                                       RDiv(window_height, Whole(2)),
                                       Whole(0), notes))

\* mutant: the coordinates are tested for truth instead of against None,
\* so a coordinate 0 counts as absent
PdfItem_truthyCoords(profiles, templates, hw_item, window_width, window_height, profile_name) ==
    LET x == Get(hw_item, "x_position", None)
        y == Get(hw_item, "y_position", None)
        article == Get(hw_item, "article", S_NA)
        name == Get(hw_item, "name", S_Unknown)
        notes == Get(hw_item, "notes", S_empty)
    IN  IF x # None /\ x # Whole(0) /\ y # None /\ y # Whole(0)
        THEN Ret(HardwarePlacement(article, name, x, y,
                                   Get(hw_item, "rotation", Whole(0)),
                                   notes))
        ELSE LET hw_type ==
                     categorize_hardware_type(Get(hw_item, "name", S_empty))
             IN  IF ~hw_type.ok THEN hw_type
                 ELSE LET default_placements ==
                              calculate_hardware_placement(
                                  profiles, templates, window_width,
                                  window_height, profile_name, hw_type.value)
                      IN  IF ~default_placements.ok THEN default_placements
                          ELSE IF default_placements.value # <<>>
                          THEN LET default_placement ==
                                       default_placements.value[1]
                               IN  Ret(HardwarePlacement(
                                       article, name, default_placement.x,
                                       default_placement.y,
                                       default_placement.rotation, notes))
                          ELSE Ret(HardwarePlacement(
                                       article, name,
                                       RDiv(window_width, Whole(2)),
                                       RDiv(window_height, Whole(2)),
                                       Whole(0), notes))

\* mutant: the last fallback is the origin instead of the window centre
PdfItem_fallbackOrigin(profiles, templates, hw_item, window_width, window_height, profile_name) ==
    LET x == Get(hw_item, "x_position", None)
        y == Get(hw_item, "y_position", None)
        article == Get(hw_item, "article", S_NA)
        name == Get(hw_item, "name", S_Unknown)
        notes == Get(hw_item, "notes", S_empty)
    IN  IF x # None /\ y # None
        THEN Ret(HardwarePlacement(article, name, x, y,
                                   Get(hw_item, "rotation", Whole(0)),
                                   notes))
        ELSE LET hw_type ==
                     categorize_hardware_type(Get(hw_item, "name", S_empty))
             IN  IF ~hw_type.ok THEN hw_type
                 ELSE LET default_placements ==
                              calculate_hardware_placement(
                                  profiles, templates, window_width,
                                  window_height, profile_name, hw_type.value)
                      IN  IF ~default_placements.ok THEN default_placements
                          ELSE IF default_placements.value # <<>>
                          THEN LET default_placement ==
                                       default_placements.value[1]
                               IN  Ret(HardwarePlacement(
                                       article, name, default_placement.x,
                                       default_placement.y,
                                       default_placement.rotation, notes))
                          ELSE Ret(HardwarePlacement(
                                       article, name,
                                       Whole(0), Whole(0),
                                       Whole(0), notes))

\* the body of the loop  for hw_item in pdf_hardware_list : the placement
\* appended (Ret) or the exception that leaves the loop (Raise)
PdfItem(profiles, templates, hw_item, window_width, window_height, profile_name) ==
    LET x == Get(hw_item, "x_position", None)
        y == Get(hw_item, "y_position", None)
        article == Get(hw_item, "article", S_NA)
        name == Get(hw_item, "name", S_Unknown)
        notes == Get(hw_item, "notes", S_empty)
    IN  IF x # None /\ y # None
        THEN Ret(HardwarePlacement(article, name, x, y,
                                   Get(hw_item, "rotation", Whole(0)),
                                   notes))
        ELSE LET hw_type ==
                     categorize_hardware_type(Get(hw_item, "name", S_empty))
             IN  IF ~hw_type.ok THEN hw_type
                 ELSE LET default_placements ==
                              calculate_hardware_placement(
                                  profiles, templates, window_width,
                                  window_height, profile_name, hw_type.value)
                      IN  IF ~default_placements.ok THEN default_placements
                          ELSE IF default_placements.value # <<>>
                          THEN LET default_placement ==
                                       default_placements.value[1]
                               IN  Ret(HardwarePlacement(
                                       article, name, default_placement.x,
                                       default_placement.y,
                                       default_placement.rotation, notes))
                          ELSE Ret(HardwarePlacement(
                                       article, name,
                                       RDiv(window_width, Whole(2)),
                                       RDiv(window_height, Whole(2)),
                                       Whole(0), notes))

RECURSIVE PdfLoop(_, _, _, _, _, _, _, _)
PdfLoop(profiles, templates, pdf_hardware_list, i, placements, window_width, window_height, profile_name) ==
    IF i > Len(pdf_hardware_list) THEN Ret(placements)
    ELSE LET placement == PdfItem(profiles, templates, pdf_hardware_list[i],
                                  window_width, window_height, profile_name)
         IN  IF ~placement.ok THEN placement
             ELSE PdfLoop(profiles, templates, pdf_hardware_list, i + 1,
                          Append(placements, placement.value), window_width,
                          window_height, profile_name)

calculate_from_pdf_data(profiles, templates, window_width, window_height, profile_name, pdf_hardware_list) ==
    IF ~ProfileKnown(profiles, profile_name) THEN Raise("ValueError")
    ELSE PdfLoop(profiles, templates, pdf_hardware_list, 1, <<>>,
                 window_width, window_height, profile_name)

get_mounting_recommendations(profiles, templates, window_width, window_height, profile_name) ==
    IF ~ProfileKnown(profiles, profile_name) THEN Raise("ValueError")
    ELSE LET hinges == calculate_hardware_placement(
                           profiles, templates, window_width, window_height,
                           profile_name, S_hinge)
             handle == calculate_hardware_placement(
                           profiles, templates, window_width, window_height,
                           profile_name, S_handle)
             lock == calculate_hardware_placement(
                         profiles, templates, window_width, window_height,
                         profile_name, S_lock)
             sill == calculate_hardware_placement(
                         profiles, templates, window_width, window_height,
                         profile_name, S_sill)
         IN  IF ~hinges.ok THEN hinges
             ELSE IF ~handle.ok THEN handle
             ELSE IF ~lock.ok THEN lock
             ELSE IF ~sill.ok THEN sill
             ELSE Ret([hinges |-> hinges.value, handle |-> handle.value,
                       lock |-> lock.value, sill |-> sill.value])

ProfileSystem(name, axis_offset, sash_thickness, frame_width, sash_width, description) ==
    [name |-> name, axis_offset |-> axis_offset,
     sash_thickness |-> sash_thickness, frame_width |-> frame_width,
     sash_width |-> sash_width, description |-> description]

\* mutant: the registry is rebuilt around the new profile
add_profile_system_alone(profiles, profile) ==
    [k \in {profile.name} |-> profile]

\* mutant: a name already registered keeps its first profile (setdefault)
add_profile_system_keepFirst(profiles, profile) ==
    [k \in DOMAIN profiles \cup {profile.name} |->
        IF k \in DOMAIN profiles THEN profiles[k] ELSE profile]

\* add_profile_system: self.profile_systems[profile.name] = profile
add_profile_system(profiles, profile) ==
    [k \in DOMAIN profiles \cup {profile.name} |->
        IF k = profile.name THEN profile ELSE profiles[k]]

---------------------------------------------------------------------------
(* DBManager: the SQLite tables and the statements run on them *)

\* the columns an INSERT INTO hardware_components fills from data, in the
\* order of the statement; UPDATE sets all of them but article_number
HardwareInsertColumns ==
    <<"article_number", "name", "category", "description", "image_path",
      "width", "height", "depth", "mounting_points", "mounting_schemes",
      "manufacturer", "supplier", "price">>

HardwareUpdateColumns == Tail(HardwareInsertColumns)

ProfileInsertColumns ==
    <<"name", "description", "axis_offset", "sash_thickness", "frame_width",
      "sash_width">>

ColumnSet(columns) == {columns[i] : i \in 1..Len(columns)}

\* the row an INSERT stores: every listed column takes data.get(column), the
\* id is the one AUTOINCREMENT hands out and both timestamps default to
\* CURRENT_TIMESTAMP
InsertedRow(columns, data, id, now) ==
    [column \in ColumnSet(columns) \cup {"id", "created_at", "updated_at"} |->
        IF column = "id" THEN id
        ELSE IF column \in {"created_at", "updated_at"} THEN now
        ELSE Get(data, column, None)]

\* the row an UPDATE leaves: the listed columns take data.get(column),
\* updated_at takes CURRENT_TIMESTAMP, the other columns keep their value
UpdatedRow(columns, row, data, now) ==
    [column \in DOMAIN row |->
        IF column \in ColumnSet(columns) THEN Get(data, column, None)
        ELSE IF column = "updated_at" THEN now
        ELSE row[column]]

\* a table with one row more, one row replaced, one row less
WithRow(table, id, row) ==
    [k \in DOMAIN table \cup {id} |-> IF k = id THEN row ELSE table[k]]

WithoutRow(table, id) == [k \in DOMAIN table \ {id} |-> table[k]]

\* what a method that writes hands back: its outcome, the table and the
\* sequence it leaves, and whether its connection stays open holding the
\* write lock (execute raised before conn.close() was reached)
Written(outcome, table, sequence, lock) ==
    [outcome |-> outcome, table |-> table, sequence |-> sequence,
     lock |-> lock]

\* NOT NULL on article_number and name, UNIQUE on article_number
HardwareInsertRejected(table, data) ==
    \/ Get(data, "article_number", None) = None
    \/ Get(data, "name", None) = None
    \/ \E k \in DOMAIN table :
          table[k].article_number = Get(data, "article_number", None)

\* add_hardware_component: the INSERT waits for the write lock and gives up
\* with OperationalError; a rejected row raises IntegrityError out of
\* execute, past commit and close; else the row is stored under the next id
db_add_hardware_component(table, sequence, lock, now, data) ==
    IF lock THEN Written(Raise("OperationalError"), table, sequence, lock)
    ELSE IF HardwareInsertRejected(table, data)
    THEN Written(Raise("IntegrityError"), table, sequence, TRUE)
    ELSE LET component_id == sequence + 1
         IN  Written(Ret(component_id),
                     WithRow(table, component_id,
                             InsertedRow(HardwareInsertColumns, data,
                                         component_id, now)),
                     component_id, lock)

\* get_hardware_component: fetchone() of SELECT * ... WHERE id = ?
db_get_hardware_component(table, component_id) ==
    IF component_id \in DOMAIN table THEN Ret(table[component_id])
    ELSE Ret(None)

\* mutant: the UPDATE sets article_number as well
db_update_hardware_component_setsArticle(table, sequence, lock, now, component_id, data) ==
    IF lock THEN Written(Raise("OperationalError"), table, sequence, lock)
    ELSE IF component_id \notin DOMAIN table
    THEN Written(Ret(None), table, sequence, lock)
    ELSE IF Get(data, "name", None) = None
    THEN Written(Raise("IntegrityError"), table, sequence, TRUE)
    ELSE Written(Ret(None),
                 WithRow(table, component_id,
                         UpdatedRow(HardwareInsertColumns,
                                    table[component_id], data, now)),
                 sequence, lock)

\* mutant: the UPDATE has no WHERE clause
db_update_hardware_component_noWhere(table, sequence, lock, now, component_id, data) ==
    IF lock THEN Written(Raise("OperationalError"), table, sequence, lock)
    ELSE IF Get(data, "name", None) = None /\ DOMAIN table # {}
    THEN Written(Raise("IntegrityError"), table, sequence, TRUE)
    ELSE Written(Ret(None),
                 [k \in DOMAIN table |->
                     UpdatedRow(HardwareUpdateColumns, table[k], data, now)],
                 sequence, lock)

\* update_hardware_component: UPDATE ... WHERE id = ?; no row, no check
db_update_hardware_component(table, sequence, lock, now, component_id, data) ==
    IF lock THEN Written(Raise("OperationalError"), table, sequence, lock)
    ELSE IF component_id \notin DOMAIN table
    THEN Written(Ret(None), table, sequence, lock)
    ELSE IF Get(data, "name", None) = None
    THEN Written(Raise("IntegrityError"), table, sequence, TRUE)
    ELSE Written(Ret(None),
                 WithRow(table, component_id,
                         UpdatedRow(HardwareUpdateColumns,
                                    table[component_id], data, now)),
                 sequence, lock)

\* mutant: the DELETE compares with <= and takes the older rows along
db_delete_hardware_component_olderToo(table, sequence, lock, component_id) ==
    IF lock THEN Written(Raise("OperationalError"), table, sequence, lock)
    ELSE Written(Ret(None),
                 [k \in {i \in DOMAIN table : i > component_id} |-> table[k]],
                 sequence, lock)

\* delete_hardware_component: DELETE ... WHERE id = ?
db_delete_hardware_component(table, sequence, lock, component_id) ==
    IF lock THEN Written(Raise("OperationalError"), table, sequence, lock)
    ELSE Written(Ret(None), WithoutRow(table, component_id), sequence, lock)

\* NOT NULL and UNIQUE on name
ProfileInsertRejected(table, data) ==
    \/ Get(data, "name", None) = None
    \/ \E k \in DOMAIN table : table[k].name = Get(data, "name", None)

\* DBManager.add_profile_system
db_add_profile_system(table, sequence, lock, now, data) ==
    IF lock THEN Written(Raise("OperationalError"), table, sequence, lock)
    ELSE IF ProfileInsertRejected(table, data)
    THEN Written(Raise("IntegrityError"), table, sequence, TRUE)
    ELSE LET system_id == sequence + 1
         IN  Written(Ret(system_id),
                     WithRow(table, system_id,
                             InsertedRow(ProfileInsertColumns, data,
                                         system_id, now)),
                     system_id, lock)

\* the order of two TEXT values under SQLite's BINARY collation: the order
\* of their UTF-8 bytes, which is the order of their code points
TextLess(a, b) ==
    \E k \in 0..Len(a.s) :
        /\ k <= Len(b.s)
        /\ \A j \in 1..k : a.s[j] = b.s[j]
        /\ \/ k = Len(a.s) /\ k < Len(b.s)
           \/ k < Len(a.s) /\ k < Len(b.s) /\ a.s[k + 1] < b.s[k + 1]

\* the rows with the given ids in the order of ORDER BY name (names are
\* UNIQUE and NOT NULL)
RECURSIVE OrderByName(_, _)
OrderByName(table, ids) ==
    IF ids = {} THEN <<>>
    ELSE LET first == CHOOSE k \in ids :
                        \A q \in ids \ {k} :
                            TextLess(table[k].name, table[q].name)
         IN  <<table[first]>> \o OrderByName(table, ids \ {first})

\* mutant: the SELECT has no ORDER BY and returns the rows in id order
db_get_all_profile_systems_byId(table) ==
    Ret([i \in 1..Cardinality(DOMAIN table) |->
            table[CHOOSE k \in DOMAIN table :
                    Cardinality({q \in DOMAIN table : q < k}) = i - 1]])

\* get_all_profile_systems: SELECT * FROM profile_systems ORDER BY name
db_get_all_profile_systems(table) == Ret(OrderByName(table, DOMAIN table))

---------------------------------------------------------------------------
(* Inputs of the operations *)

\* profile names "A" and "B"
PN_A == Str(<<65>>)
PN_B == Str(<<66>>)
ProfileNames == {PN_A, PN_B}

\* per name, the profile of test_functionality.py and one that differs from
\* it in every field but the name
ProfileInputs ==
    {ProfileSystem(nm, Whole(35), Whole(68), Whole(76), Whole(76),
                   Str(<<84, 101, 115, 116>>)) : nm \in ProfileNames}
    \cup {ProfileSystem(nm, Whole(13), R(705, 10), Whole(82), Whole(80),
                        S_empty) : nm \in ProfileNames}

\* (window_width, window_height): the 1000x500 window of the examples, a
\* small one whose fractions are not whole, and one that is not positive
Windows ==
    {<<Whole(1000), Whole(500)>>, <<Whole(3), Whole(7)>>,
     <<Whole(-200), Whole(0)>>}

S_unknown_category == Str(<<117, 110, 107, 110, 111, 119, 110, 95, 99, 97, 116, 101, 103, 111, 114, 121>>)
Categories ==
    {S_hinge, S_handle, S_lock, S_sill, S_corner, S_other,
     S_unknown_category}

\* article "A", name "Item", notes "n"
S_A == Str(<<65>>)
S_Item == Str(<<73, 116, 101, 109>>)
S_n == Str(<<110>>)

\* a list of hardware_specs entries: the example of the specification,
\* an entry with every key, an empty one, absolute and relative values out
\* of range, and keys present with the value None
SpecEntries ==
    << [x |-> Whole(10), y_offset |-> R(1, 2)],
       [x |-> Whole(0), x_offset |-> R(1, 2), y_offset |-> Whole(1),
        article |-> S_A, name |-> S_Item, rotation |-> Whole(90),
        notes |-> S_n],
       <<>>,
       [x_offset |-> Whole(0), y |-> Whole(2000), y_offset |-> R(1, 4)],
       [x_offset |-> R(3, 2), y_offset |-> R(1, 4)],
       [x |-> None, x_offset |-> R(1, 4), y_offset |-> None] >>

\* names of extracted items: "Dvernaya ruchka" (Cyrillic), "HINGE",
\* "Lock handle", "Zamok" (Cyrillic, capitalised), "Podokonnik" (Cyrillic,
\* capitalised), "Ugol" (Cyrillic, capitalised)
Name_DvernayaRuchka == Str(<<1044, 1074, 1077, 1088, 1085, 1072, 1103, 32, 1088, 1091, 1095, 1082, 1072>>)
Name_HINGE == Str(<<72, 73, 78, 71, 69>>)
Name_LockHandle == Str(<<76, 111, 99, 107, 32, 104, 97, 110, 100, 108, 101>>)
Name_Zamok == Str(<<1047, 1072, 1084, 1086, 1082>>)
Name_Podokonnik == Str(<<1055, 1086, 1076, 1086, 1082, 1086, 1085, 1085, 1080, 1082>>)
Name_Ugol == Str(<<1059, 1075, 1086, 1083>>)

\* a list of extracted items
PdfEntries ==
    << [name |-> Name_DvernayaRuchka],
       [name |-> Name_HINGE, article |-> S_A, notes |-> S_n,
        x_position |-> Whole(12), rotation |-> Whole(45)],
       [name |-> Name_LockHandle, x_position |-> Whole(0),
        y_position |-> Whole(0), rotation |-> Whole(45)],
       [name |-> None, article |-> S_A],
       [name |-> Name_Zamok, y_position |-> None],
       [name |-> Name_Podokonnik, article |-> S_A],
       [name |-> Name_Ugol],
       [article |-> S_A, notes |-> S_n],
       [name |-> None, x_position |-> Whole(7), y_position |-> Whole(0),
        notes |-> S_n],
       [name |-> Name_Ugol, x_position |-> None, y_position |-> Whole(33),
        rotation |-> Whole(45)] >>

\* the lists passed to an operation: the runs of at most MaxItems
\* consecutive entries of a list, the empty run included
Runs(entries) ==
    {SubSeq(entries, r[1], r[2]) :
        r \in {p \in (1..Len(entries)) \X (0..Len(entries)) :
                 p[2] >= p[1] - 1 /\ p[2] - p[1] < MaxItems}}

\* component names handed to the classifier: upper, lower and mixed case,
\* Latin and Cyrillic, names holding keywords of several categories, a name
\* holding none, and the empty name
Name_HandleHinge == Str(<<72, 97, 110, 100, 108, 101, 47, 72, 105, 110, 103, 101>>)
Name_CornerSillLock == Str(<<99, 111, 114, 110, 101, 114, 32, 115, 105, 108, 108, 32, 108, 111, 99, 107>>)
Name_SillCorner == Str(<<83, 105, 108, 108, 32, 67, 111, 114, 110, 101, 114>>)
Name_ZamokUgol == Str(<<1047, 1072, 1052, 1086, 1050, 32, 1059, 1043, 1054, 1051>>)
Name_SHARNIR == Str(<<1064, 1040, 1056, 1053, 1048, 1056>>)
Name_Vint == Str(<<1042, 1080, 1085, 1090>>)
Name_KNOB == Str(<<1050, 1053, 1054, 1041>>)
Name_PODOKONNIK == Str(<<1055, 1054, 1044, 1054, 1050, 1054, 1053, 1053, 1048, 1050, 32, 1074, 32, 1091, 1075, 1083, 1091>>)

ComponentNames ==
    {Name_DvernayaRuchka, Name_HINGE, Name_LockHandle, Name_Zamok,
     Name_Podokonnik, Name_Ugol, Name_HandleHinge, Name_CornerSillLock,
     Name_SillCorner, Name_ZamokUgol, Name_SHARNIR, Name_Vint, Name_KNOB,
     Name_PODOKONNIK, S_empty, None}

\* the dicts handed to DBManager: 'TEST-001' and the updated component of
\* test_admin_functionality (with an article_number, which UPDATE does not
\* set), a second article, and dicts without a name or an article_number
A_TEST001 == Str(<<84, 69, 83, 84, 45, 48, 48, 49>>)
A_TEST002 == Str(<<84, 69, 83, 84, 45, 48, 48, 50>>)
N_TestHandle == Str(<<1058, 1077, 1089, 1090, 1086, 1074, 1072, 1103, 32, 1088, 1091, 1095, 1082, 1072>>)
N_UpdatedHandle == Str(<<1054, 1073, 1085, 1086, 1074, 1083, 1077, 1085, 1085, 1072, 1103, 32, 1090, 1077, 1089, 1090, 1086, 1074, 1072, 1103, 32, 1088, 1091, 1095, 1082, 1072>>)
C_Handles == Str(<<1056, 1091, 1095, 1082, 1080>>)

HardwareData ==
    {[article_number |-> A_TEST001, name |-> N_TestHandle,
      category |-> C_Handles, width |-> Whole(60), price |-> Whole(500)],
     [article_number |-> A_TEST002, name |-> N_TestHandle,
      description |-> S_empty, width |-> R(121, 2)],
     [article_number |-> A_TEST002, category |-> C_Handles],
     [name |-> N_TestHandle]}

HardwareUpdates ==
    {[article_number |-> A_TEST002, name |-> N_UpdatedHandle,
      category |-> C_Handles, width |-> Whole(65), price |-> Whole(550)],
     [category |-> C_Handles, width |-> Whole(65)]}

ComponentIds == 1..(MaxComponents + 1)

\* profile systems named 'b', 'a' and 'Z', and one without a name
DbProfileData ==
    {[name |-> Str(<<98>>), description |-> S_empty,
      axis_offset |-> R(31, 2), sash_thickness |-> Whole(68),
      frame_width |-> Whole(90), sash_width |-> Whole(78)],
     [name |-> Str(<<97>>), axis_offset |-> Whole(16)],
     [name |-> Str(<<90>>), description |-> S_n],
     [description |-> S_n, axis_offset |-> Whole(16)]}

ProfileIds == 1..(MaxProfiles + 1)

\* windows of int dimensions > 0, (width, height) in millimetres
IntWindows == {<<1000, 500>>, <<3, 7>>, <<600, 1400>>, <<9, 11>>, <<1, 2>>}

Counts == (-1)..MaxCount

Alignments == {"horizontal", "vertical", "diagonal"}

---------------------------------------------------------------------------
(* The state machine *)

\* no call is in progress and the caller holds no result
Idle == [op |-> "idle"]

\* HardwareCalculator.__init__
Init ==
    /\ profile_systems = <<>>
    /\ hardware_templates = DefaultTemplates
    /\ registered = <<>>
    /\ call = Idle
    /\ result = None
    /\ db_hardware_components = <<>>
    /\ db_profile_systems = <<>>
    /\ db_sequence = [table \in {"hardware_components", "profile_systems"} |-> 0]
    /\ db_write_lock = FALSE
    /\ db_now = 0
    /\ db_added = <<>>

AddProfileSystem(profile) ==
    /\ call = Idle
    /\ Len(registered) < MaxAdds
    /\ profile_systems' = add_profile_system(profile_systems, profile)
    /\ registered' = Append(registered, profile)
    /\ call' = [op |-> "add_profile_system", profile |-> profile]
    /\ result' = Ret(None)
    /\ UNCHANGED <<hardware_templates, db_vars>>

\* mutant: the template lookup is  setdefault(hardware_type, [])  and
\* leaves an entry for every category asked for
CalculateHardwarePlacement_setdefault(window, profile_name, hardware_type) ==
    /\ call = Idle
    /\ call' = [op |-> "calculate_hardware_placement",
                window_width |-> window[1], window_height |-> window[2],
                profile_name |-> profile_name,
                hardware_type |-> hardware_type]
    /\ result' = calculate_hardware_placement(
                     profile_systems, hardware_templates, window[1],
                     window[2], profile_name, hardware_type)
    /\ hardware_templates' =
          IF ProfileKnown(profile_systems, profile_name)
          THEN [k \in DOMAIN hardware_templates \cup {hardware_type} |->
                   IF k \in DOMAIN hardware_templates
                   THEN hardware_templates[k] ELSE <<>>]
          ELSE hardware_templates
    /\ UNCHANGED <<profile_systems, registered, db_vars>>

CalculateHardwarePlacement(window, profile_name, hardware_type) ==
    /\ call = Idle
    /\ call' = [op |-> "calculate_hardware_placement",
                window_width |-> window[1], window_height |-> window[2],
                profile_name |-> profile_name,
                hardware_type |-> hardware_type]
    /\ result' = calculate_hardware_placement(
                     profile_systems, hardware_templates, window[1],
                     window[2], profile_name, hardware_type)
    /\ UNCHANGED <<calc_vars, db_vars>>

CalculateCustomPlacement(window, profile_name, hardware_specs) ==
    /\ call = Idle
    /\ call' = [op |-> "calculate_custom_placement",
                window_width |-> window[1], window_height |-> window[2],
                profile_name |-> profile_name,
                hardware_specs |-> hardware_specs]
    /\ result' = calculate_custom_placement(
                     profile_systems, window[1], window[2], profile_name,
                     hardware_specs)
    /\ UNCHANGED <<calc_vars, db_vars>>

CalculateSymmetricPlacement(window, profile_name, hardware_article, hardware_name, count, alignment) ==
    /\ call = Idle
    /\ call' = [op |-> "calculate_symmetric_placement",
                window_width |-> window[1], window_height |-> window[2],
                profile_name |-> profile_name,
                hardware_article |-> hardware_article,
                hardware_name |-> hardware_name, count |-> count,
                alignment |-> alignment]
    /\ result' = calculate_symmetric_placement(
                     profile_systems, window[1], window[2], profile_name,
                     hardware_article, hardware_name, count, alignment)
    /\ UNCHANGED <<calc_vars, db_vars>>

CalculateFromPdfData(window, profile_name, pdf_hardware_list) ==
    /\ call = Idle
    /\ call' = [op |-> "calculate_from_pdf_data",
                window_width |-> window[1], window_height |-> window[2],
                profile_name |-> profile_name,
                pdf_hardware_list |-> pdf_hardware_list]
    /\ result' = calculate_from_pdf_data(
                     profile_systems, hardware_templates, window[1],
                     window[2], profile_name, pdf_hardware_list)
    /\ UNCHANGED <<calc_vars, db_vars>>

GetMountingRecommendations(window, profile_name) ==
    /\ call = Idle
    /\ call' = [op |-> "get_mounting_recommendations",
                window_width |-> window[1], window_height |-> window[2],
                profile_name |-> profile_name]
    /\ result' = get_mounting_recommendations(
                     profile_systems, hardware_templates, window[1],
                     window[2], profile_name)
    /\ UNCHANGED <<calc_vars, db_vars>>

\* _categorize_hardware_type called on a component name
CategorizeHardwareType(hardware_name) ==
    /\ call = Idle
    /\ call' = [op |-> "_categorize_hardware_type",
                hardware_name |-> hardware_name]
    /\ result' = categorize_hardware_type(hardware_name)
    /\ UNCHANGED <<calc_vars, db_vars>>

\* the caller goes on to its next statement; the calculator keeps nothing
\* of the call that returned or raised
Continue ==
    /\ call # Idle
    /\ call' = Idle
    /\ result' = None
    /\ UNCHANGED <<calc_vars, db_vars>>

Next ==
    \/ \E profile \in ProfileInputs : AddProfileSystem(profile)
    \/ \E window \in Windows, profile_name \in ProfileNames,
          hardware_type \in Categories :
            CalculateHardwarePlacement(window, profile_name, hardware_type)
    \/ \E window \in Windows, profile_name \in ProfileNames,
          hardware_specs \in Runs(SpecEntries) :
            CalculateCustomPlacement(window, profile_name, hardware_specs)
    \/ \E window \in Windows, profile_name \in ProfileNames,
          count \in Counts, alignment \in Alignments :
            CalculateSymmetricPlacement(window, profile_name, S_A, S_Item,
                                        count, alignment)
    \/ \E window \in Windows, profile_name \in ProfileNames,
          pdf_hardware_list \in Runs(PdfEntries) :
            CalculateFromPdfData(window, profile_name, pdf_hardware_list)
    \/ \E window \in Windows, profile_name \in ProfileNames :
            GetMountingRecommendations(window, profile_name)
    \/ \E hardware_name \in ComponentNames :
            CategorizeHardwareType(hardware_name)
    \/ Continue

Spec == Init /\ [][Next]_vars

---------------------------------------------------------------------------
(* The symmetric distribution in floats *)

CalculateSymmetricPlacement64(window, profile_name, hardware_article, hardware_name, count, alignment) ==
    /\ call = Idle
    /\ call' = [op |-> "calculate_symmetric_placement",
                window_width |-> window[1], window_height |-> window[2],
                profile_name |-> profile_name,
                hardware_article |-> hardware_article,
                hardware_name |-> hardware_name, count |-> count,
                alignment |-> alignment]
    /\ result' = calculate_symmetric_placement64(
                     profile_systems, window[1], window[2], profile_name,
                     hardware_article, hardware_name, count, alignment)
    /\ UNCHANGED <<calc_vars, db_vars>>

FloatNext ==
    \/ \E profile \in ProfileInputs : AddProfileSystem(profile)
    \/ \E window \in IntWindows, profile_name \in ProfileNames,
          count \in Counts, alignment \in Alignments :
            CalculateSymmetricPlacement64(window, profile_name, S_A, S_Item,
                                          count, alignment)
    \/ Continue

\* the calculator with calculate_symmetric_placement computing in floats
FloatSpec == Init /\ [][FloatNext]_vars

---------------------------------------------------------------------------
(* The DBManager as a state machine *)

DbAddHardwareComponent(data) ==
    /\ call = Idle
    /\ db_sequence["hardware_components"] < MaxComponents
    /\ LET written == db_add_hardware_component(
                          db_hardware_components,
                          db_sequence["hardware_components"], db_write_lock,
                          db_now, data)
       IN  /\ db_hardware_components' = written.table
           /\ db_sequence' = [db_sequence EXCEPT
                                 !["hardware_components"] = written.sequence]
           /\ db_write_lock' = written.lock
           /\ result' = written.outcome
           /\ db_added' = IF written.outcome.ok
                          THEN WithRow(db_added, written.outcome.value, data)
                          ELSE db_added
    /\ call' = [op |-> "db.add_hardware_component", data |-> data]
    /\ UNCHANGED <<calc_vars, db_profile_systems, db_now>>

DbGetHardwareComponent(component_id) ==
    /\ call = Idle
    /\ call' = [op |-> "db.get_hardware_component",
                component_id |-> component_id]
    /\ result' = db_get_hardware_component(db_hardware_components,
                                           component_id)
    /\ UNCHANGED <<calc_vars, db_vars>>

DbUpdateHardwareComponent(component_id, data) ==
    /\ call = Idle
    /\ LET written == db_update_hardware_component(
                          db_hardware_components,
                          db_sequence["hardware_components"], db_write_lock,
                          db_now, component_id, data)
       IN  /\ db_hardware_components' = written.table
           /\ db_write_lock' = written.lock
           /\ result' = written.outcome
           /\ db_added' = IF written.outcome.ok
                          THEN WithoutRow(db_added, component_id)
                          ELSE db_added
    /\ call' = [op |-> "db.update_hardware_component",
                component_id |-> component_id, data |-> data]
    /\ UNCHANGED <<calc_vars, db_profile_systems, db_sequence, db_now>>

DbDeleteHardwareComponent(component_id) ==
    /\ call = Idle
    /\ LET written == db_delete_hardware_component(
                          db_hardware_components,
                          db_sequence["hardware_components"], db_write_lock,
                          component_id)
       IN  /\ db_hardware_components' = written.table
           /\ db_write_lock' = written.lock
           /\ result' = written.outcome
           /\ db_added' = IF written.outcome.ok
                          THEN WithoutRow(db_added, component_id)
                          ELSE db_added
    /\ call' = [op |-> "db.delete_hardware_component",
                component_id |-> component_id]
    /\ UNCHANGED <<calc_vars, db_profile_systems, db_sequence, db_now>>

DbAddProfileSystem(data) ==
    /\ call = Idle
    /\ db_sequence["profile_systems"] < MaxProfiles
    /\ LET written == db_add_profile_system(
                          db_profile_systems, db_sequence["profile_systems"],
                          db_write_lock, db_now, data)
       IN  /\ db_profile_systems' = written.table
           /\ db_sequence' = [db_sequence EXCEPT
                                 !["profile_systems"] = written.sequence]
           /\ db_write_lock' = written.lock
           /\ result' = written.outcome
    /\ call' = [op |-> "db.add_profile_system", data |-> data]
    /\ UNCHANGED <<calc_vars, db_hardware_components, db_now, db_added>>

DbGetAllProfileSystems ==
    /\ call = Idle
    /\ call' = [op |-> "db.get_all_profile_systems"]
    /\ result' = db_get_all_profile_systems(db_profile_systems)
    /\ UNCHANGED <<calc_vars, db_vars>>

\* db.update_profile_system(profile_id, data): DBManager defines no such
\* attribute, the attribute lookup raises before anything is called
DbUpdateProfileSystem(profile_id, data) ==
    /\ call = Idle
    /\ call' = [op |-> "db.update_profile_system", profile_id |-> profile_id,
                data |-> data]
    /\ result' = Raise("AttributeError")
    /\ UNCHANGED <<calc_vars, db_vars>>

\* db.delete_profile_system(profile_id): no such attribute either
DbDeleteProfileSystem(profile_id) ==
    /\ call = Idle
    /\ call' = [op |-> "db.delete_profile_system", profile_id |-> profile_id]
    /\ result' = Raise("AttributeError")
    /\ UNCHANGED <<calc_vars, db_vars>>

\* the garbage collector frees the connection a raising execute left open;
\* its transaction is rolled back and the write lock released
CollectGarbage ==
    /\ call = Idle
    /\ db_write_lock
    /\ db_write_lock' = FALSE
    /\ UNCHANGED <<calc_vars, call, result, db_hardware_components,
                   db_profile_systems, db_sequence, db_now, db_added>>

\* time passes between two calls
Tick ==
    /\ call = Idle
    /\ db_now < MaxTime
    /\ db_now' = db_now + 1
    /\ UNCHANGED <<calc_vars, call, result, db_hardware_components,
                   db_profile_systems, db_sequence, db_write_lock, db_added>>

\* The two tables share nothing but the write lock of the file, so they are
\* explored apart, each with the lock, the collector and the clock.
HardwareDbNext ==
    \/ \E data \in HardwareData : DbAddHardwareComponent(data)
    \/ \E component_id \in ComponentIds :
            DbGetHardwareComponent(component_id)
    \/ \E component_id \in ComponentIds, data \in HardwareUpdates :
            DbUpdateHardwareComponent(component_id, data)
    \/ \E component_id \in ComponentIds :
            DbDeleteHardwareComponent(component_id)
    \/ CollectGarbage
    \/ Tick
    \/ Continue

HardwareDbSpec == Init /\ [][HardwareDbNext]_vars

ProfileDbNext ==
    \/ \E data \in DbProfileData : DbAddProfileSystem(data)
    \/ DbGetAllProfileSystems
    \/ \E profile_id \in ProfileIds, data \in DbProfileData :
            DbUpdateProfileSystem(profile_id, data)
    \/ \E profile_id \in ProfileIds : DbDeleteProfileSystem(profile_id)
    \/ CollectGarbage
    \/ Tick
    \/ Continue

ProfileDbSpec == Init /\ [][ProfileDbNext]_vars

---------------------------------------------------------------------------
(* Vocabulary of the properties *)

CalcOps ==
    {"calculate_hardware_placement", "calculate_custom_placement",
     "calculate_symmetric_placement", "calculate_from_pdf_data",
     "get_mounting_recommendations"}

\* the name was passed to add_profile_system at some point of the run
EverRegistered(name) ==
    \E i \in 1..Len(registered) : registered[i].name = name

Positive(v) == v.n > 0

InRange(v, dimension) == RLeq(Whole(0), v) /\ RLeq(v, dimension)

\* the fraction p/100 of a dimension, computed from its definition
Percent(p, dimension) == [n |-> p * dimension.n, d |-> 100 * dimension.d]

SameNumber(a, b) == a.n * b.d = b.n * a.d

TemplatedCategories == {S_hinge, S_handle, S_lock, S_sill}

---------------------------------------------------------------------------
(* Properties *)

\* C1: every calculation method called with a profile name that was never
\* passed to add_profile_system raises the unknown-profile error
\* (ValueError), whatever the other arguments are.
C1_UnknownProfileRaises ==
    (call.op \in CalcOps /\ ~EverRegistered(call.profile_name))
        => result = Raise("ValueError")

\* C1 witness: symmetric placement with count <= 0 and an unrecognised
\* alignment, which would otherwise give an empty list, has raised.
C1_Witness ==
    /\ call.op = "calculate_symmetric_placement"
    /\ ~EverRegistered(call.profile_name)
    /\ call.count <= 0
    /\ call.alignment = "diagonal"
    /\ result = Raise("ValueError")

\* C2: for a positive window and a registered profile, the hinge category
\* gives exactly 3 placements, top, middle, bottom in this order, with
\* y = 0.05h, 0.5h, 0.95h and x = 0.05w for all three.
C2_HingePlacements ==
    (/\ call.op = "calculate_hardware_placement"
     /\ call.hardware_type = S_hinge
     /\ EverRegistered(call.profile_name)
     /\ Positive(call.window_width)
     /\ Positive(call.window_height))
        => /\ result.ok
           /\ Len(result.value) = 3
           /\ <<result.value[1].name, result.value[2].name,
                result.value[3].name>>
              = <<N_petlya_verkhnyaya, N_petlya_srednyaya,
                  N_petlya_nizhnyaya>>
           /\ SameNumber(result.value[1].y, Percent(5, call.window_height))
           /\ SameNumber(result.value[2].y, Percent(50, call.window_height))
           /\ SameNumber(result.value[3].y, Percent(95, call.window_height))
           /\ \A i \in 1..3 :
                SameNumber(result.value[i].x, Percent(5, call.window_width))

\* C2 witness: the hinges of the 3 x 7 window, whose coordinates are not
\* whole numbers.
C2_Witness ==
    /\ call.op = "calculate_hardware_placement"
    /\ call.hardware_type = S_hinge
    /\ call.window_width = Whole(3)
    /\ call.window_height = Whole(7)
    /\ result.ok
    /\ Len(result.value) = 3
    /\ result.value[3].y = R(133, 20)

\* C3: with a registered profile, a category without a built-in template
\* gives an empty list and does not raise.
C3_UnknownCategoryEmpty ==
    (/\ call.op = "calculate_hardware_placement"
     /\ call.hardware_type \notin TemplatedCategories
     /\ EverRegistered(call.profile_name))
        => result = Ret(<<>>)

\* C3 witness: 'unknown_category' with a registered profile returned.
C3_Witness ==
    /\ call.op = "calculate_hardware_placement"
    /\ call.hardware_type = S_unknown_category
    /\ EverRegistered(call.profile_name)
    /\ result.ok

\* C4: horizontal symmetric placement with count >= 2 gives exactly count
\* placements with x = margin + i*step (margin = 5% of the width,
\* step = (width - 2*margin)/(count-1)), the first at 0.05*width and the
\* last at 0.95*width, all with y = height/2.
C4_HorizontalSpread ==
    (/\ call.op = "calculate_symmetric_placement"
     /\ call.alignment = "horizontal"
     /\ call.count >= 2
     /\ EverRegistered(call.profile_name))
        => /\ result.ok
           /\ Len(result.value) = call.count
           /\ \A k \in 1..call.count :
                /\ SameNumber(
                       result.value[k].x,
                       [n |-> (call.count - 1) * 5 * call.window_width.n
                               + (k - 1) * 90 * call.window_width.n,
                        d |-> (call.count - 1) * 100 * call.window_width.d])
                /\ SameNumber(result.value[k].y,
                              Percent(50, call.window_height))
           /\ SameNumber(result.value[1].x, Percent(5, call.window_width))
           /\ SameNumber(result.value[call.count].x,
                         Percent(95, call.window_width))

\* C4 witness: 1000 x 500 with count 3 gives x = 50, 500, 950 and y = 250.
C4_Witness ==
    /\ call.op = "calculate_symmetric_placement"
    /\ call.alignment = "horizontal"
    /\ call.count = 3
    /\ call.window_width = Whole(1000)
    /\ call.window_height = Whole(500)
    /\ result.ok
    /\ Len(result.value) = 3
    /\ <<result.value[1].x, result.value[2].x, result.value[3].x>>
       = <<Whole(50), Whole(500), Whole(950)>>
    /\ \A k \in 1..3 : result.value[k].y = Whole(250)

\* C5: symmetric placement with count = 1 gives exactly one placement, at
\* the window centre (width/2, height/2), for either alignment.
C5_SingleAtCentre ==
    (/\ call.op = "calculate_symmetric_placement"
     /\ call.alignment \in {"horizontal", "vertical"}
     /\ call.count = 1
     /\ EverRegistered(call.profile_name))
        => /\ result.ok
           /\ Len(result.value) = 1
           /\ SameNumber(result.value[1].x, Percent(50, call.window_width))
           /\ SameNumber(result.value[1].y, Percent(50, call.window_height))

\* C5 witness: 1000 x 500, count 1, vertical gives (500, 250).
C5_Witness ==
    /\ call.op = "calculate_symmetric_placement"
    /\ call.alignment = "vertical"
    /\ call.count = 1
    /\ call.window_width = Whole(1000)
    /\ call.window_height = Whole(500)
    /\ result.ok
    /\ Len(result.value) = 1
    /\ result.value[1].x = Whole(500)
    /\ result.value[1].y = Whole(250)


\* a key of a dict is given: present with a value other than None
Given(d, key) == key \in DOMAIN d /\ d[key] # None

\* the product of an offset and a dimension, from its definition
Scaled(offset, dimension) == [n |-> offset.n * dimension.n, d |-> offset.d * dimension.d]

\* C6: what the claim gives for one axis of a spec: the absolute value if
\* given, else offset times the dimension if given, else 0
C6_Axis(spec, abs_key, offset_key, dimension) ==
    IF Given(spec, abs_key) THEN spec[abs_key]
    ELSE IF Given(spec, offset_key) THEN Scaled(spec[offset_key], dimension)
    ELSE Whole(0)

\* C6: calculate_custom_placement resolves each coordinate independently
\* per axis: an absolute x / y (0 included) is used verbatim even when an
\* offset is given too; otherwise the offset times the window width resp.
\* height; otherwise 0.
C6_CustomAxes ==
    (call.op = "calculate_custom_placement" /\ EverRegistered(call.profile_name))
        => /\ result.ok
           /\ Len(result.value) = Len(call.hardware_specs)
           /\ \A i \in 1..Len(call.hardware_specs) :
                /\ SameNumber(result.value[i].x,
                              C6_Axis(call.hardware_specs[i], "x", "x_offset",
                                      call.window_width))
                /\ SameNumber(result.value[i].y,
                              C6_Axis(call.hardware_specs[i], "y", "y_offset",
                                      call.window_height))
                /\ (Given(call.hardware_specs[i], "x")
                        => result.value[i].x = call.hardware_specs[i].x)
                /\ (Given(call.hardware_specs[i], "y")
                        => result.value[i].y = call.hardware_specs[i].y)

\* C6 witness: {x: 10, y_offset: 0.5} on 1000 x 500 gave (10, 250), and the
\* next entry, with x = 0 and x_offset = 0.5, gave x = 0.
C6_Witness ==
    /\ call.op = "calculate_custom_placement"
    /\ call.window_width = Whole(1000)
    /\ call.window_height = Whole(500)
    /\ Len(call.hardware_specs) = 2
    /\ call.hardware_specs[1] = [x |-> Whole(10), y_offset |-> R(1, 2)]
    /\ call.hardware_specs[2].x = Whole(0)
    /\ call.hardware_specs[2].x_offset = R(1, 2)
    /\ result.ok
    /\ result.value[1].x = Whole(10)
    /\ result.value[1].y = Whole(250)
    /\ result.value[2].x = Whole(0)

\* an extracted item does not carry both coordinates
NoCoordinates(hw_item) == ~(Given(hw_item, "x_position") /\ Given(hw_item, "y_position"))

\* the first default placement of a templated category, in percent and
\* per mille of the window: hinge (0.05w, 0.05h), handle (0.5w, 0.75h),
\* lock (0.95w, 0.5h), sill (0.5w, 0.995h)
C7_FirstDefault(category, window_width, window_height) ==
    IF category = S_hinge
    THEN <<Percent(5, window_width), Percent(5, window_height)>>
    ELSE IF category = S_handle
    THEN <<Percent(50, window_width), Percent(75, window_height)>>
    ELSE IF category = S_lock
    THEN <<Percent(95, window_width), Percent(50, window_height)>>
    ELSE <<Percent(50, window_width),
           [n |-> 995 * window_height.n, d |-> 1000 * window_height.d]>>

\* C7: in calculate_from_pdf_data an item without explicit coordinates
\* whose name classifies to a templated category gets the coordinates and
\* rotation of the first default placement of that category, and keeps its
\* own article, name and notes; "Dvernaya ruchka" is a handle, placed at
\* (0.5w, 0.75h).
C7_PdfFallbackFirstDefault ==
    (call.op = "calculate_from_pdf_data" /\ result.ok)
        => \A i \in 1..Len(call.pdf_hardware_list) :
             LET hw_item == call.pdf_hardware_list[i]
                 placement == result.value[i]
             IN  /\ (/\ NoCoordinates(hw_item)
                     /\ "name" \in DOMAIN hw_item
                     /\ IsStr(hw_item.name)
                     /\ categorize_hardware_type(hw_item.name).value
                            \in TemplatedCategories)
                      => LET first == C7_FirstDefault(
                                 categorize_hardware_type(hw_item.name).value,
                                 call.window_width, call.window_height)
                         IN  /\ SameNumber(placement.x, first[1])
                             /\ SameNumber(placement.y, first[2])
                             /\ placement.rotation = Whole(0)
                             /\ placement.article = Get(hw_item, "article", S_NA)
                             /\ placement.name = hw_item.name
                             /\ placement.notes = Get(hw_item, "notes", S_empty)
                 /\ (NoCoordinates(hw_item) /\ Get(hw_item, "name", None) = Name_DvernayaRuchka)
                      => /\ SameNumber(placement.x, Percent(50, call.window_width))
                         /\ SameNumber(placement.y, Percent(75, call.window_height))

\* C7 witness: "Dvernaya ruchka" then "HINGE" (with an x_position only) on
\* 1000 x 500 gave (500, 375) and the top hinge's (50, 25).
C7_Witness ==
    /\ call.op = "calculate_from_pdf_data"
    /\ call.window_width = Whole(1000)
    /\ call.window_height = Whole(500)
    /\ Len(call.pdf_hardware_list) = 2
    /\ call.pdf_hardware_list[1] = [name |-> Name_DvernayaRuchka]
    /\ call.pdf_hardware_list[2].name = Name_HINGE
    /\ result.ok
    /\ result.value[1].x = Whole(500)
    /\ result.value[1].y = Whole(375)
    /\ result.value[2].x = Whole(50)
    /\ result.value[2].y = Whole(25)
    /\ result.value[2].article = S_A

\* the names passed to add_profile_system so far
C8_Names == {registered[i].name : i \in 1..Len(registered)}

\* the last profile passed to add_profile_system under a name
C8_Latest(name) ==
    registered[CHOOSE i \in 1..Len(registered) :
                  /\ registered[i].name = name
                  /\ \A j \in (i + 1)..Len(registered) : registered[j].name # name]

\* C8: after any sequence of add_profile_system calls the registry holds
\* exactly one entry per distinct registered name, the profile most
\* recently registered under it, stored under its own name; registering
\* again under a name replaces the entry and adds none.
C8_RegistryLatestPerName ==
    /\ DOMAIN profile_systems = C8_Names
    /\ Cardinality(DOMAIN profile_systems) = Cardinality(C8_Names)
    /\ \A name \in DOMAIN profile_systems :
         /\ profile_systems[name] = C8_Latest(name)
         /\ profile_systems[name].name = name

\* C8 witness: two different profiles were registered under one name and
\* the registry holds the second alone.
C8_Witness ==
    /\ Len(registered) = 2
    /\ registered[1].name = registered[2].name
    /\ registered[1] # registered[2]
    /\ Cardinality(DOMAIN profile_systems) = 1
    /\ profile_systems[registered[2].name] = registered[2]


\* a placement lies in the window of the call
C9_Inside(placement) ==
    /\ InRange(placement.x, call.window_width)
    /\ InRange(placement.y, call.window_height)

\* a spec entry supplies no absolute coordinate and only offsets in [0, 1]
C9_RelativeOnly(spec) ==
    /\ ~Given(spec, "x")
    /\ ~Given(spec, "y")
    /\ \A key \in {"x_offset", "y_offset"} :
         Given(spec, key) => InRange(spec[key], Whole(1))

\* C9: for a positive window, every placement returned by
\* calculate_hardware_placement, by calculate_symmetric_placement with
\* count >= 1, by calculate_custom_placement for an entry without absolute
\* coordinates whose offsets are in [0, 1], and by calculate_from_pdf_data
\* for an item without explicit coordinates, has 0 <= x <= window_width
\* and 0 <= y <= window_height.
C9_PlacementsInsideWindow ==
    (/\ call.op \in CalcOps
     /\ Positive(call.window_width)
     /\ Positive(call.window_height)
     /\ result.ok)
        => /\ call.op = "calculate_hardware_placement"
                => \A i \in 1..Len(result.value) : C9_Inside(result.value[i])
           /\ (call.op = "calculate_symmetric_placement" /\ call.count >= 1)
                => \A i \in 1..Len(result.value) : C9_Inside(result.value[i])
           /\ call.op = "calculate_custom_placement"
                => \A i \in 1..Len(result.value) :
                     C9_RelativeOnly(call.hardware_specs[i])
                        => C9_Inside(result.value[i])
           /\ call.op = "calculate_from_pdf_data"
                => \A i \in 1..Len(result.value) :
                     NoCoordinates(call.pdf_hardware_list[i])
                        => C9_Inside(result.value[i])

\* C9 witness: the largest count, vertical, on the 3 x 7 window: the last
\* placement is at 0.95 of the height.
C9_Witness ==
    /\ call.op = "calculate_symmetric_placement"
    /\ call.alignment = "vertical"
    /\ call.count = MaxCount
    /\ call.window_width = Whole(3)
    /\ call.window_height = Whole(7)
    /\ result.ok
    /\ Len(result.value) = MaxCount
    /\ result.value[MaxCount].y = R(133, 20)
    /\ C9_Inside(result.value[MaxCount])

\* the registries with the names of a registry and any field values
C10_OtherRegistries(profiles) ==
    {other \in [DOMAIN profiles -> ProfileInputs] :
        \A name \in DOMAIN profiles : other[name].name = name}

\* the result of a recorded call on a calculator with another registry
C10_Replay(profiles, c) ==
    IF c.op = "calculate_hardware_placement"
    THEN calculate_hardware_placement(profiles, hardware_templates, c.window_width, c.window_height, c.profile_name, c.hardware_type)
    ELSE IF c.op = "calculate_custom_placement"
    THEN calculate_custom_placement(profiles, c.window_width, c.window_height, c.profile_name, c.hardware_specs)
    ELSE IF c.op = "calculate_symmetric_placement"
    THEN calculate_symmetric_placement(profiles, c.window_width, c.window_height, c.profile_name, c.hardware_article, c.hardware_name, c.count, c.alignment)
    ELSE IF c.op = "calculate_from_pdf_data"
    THEN calculate_from_pdf_data(profiles, hardware_templates, c.window_width, c.window_height, c.profile_name, c.pdf_hardware_list)
    ELSE get_mounting_recommendations(profiles, hardware_templates, c.window_width, c.window_height, c.profile_name)

\* C10: the result of every calculation method is independent of the field
\* values of the registered profiles: a calculator whose registry has the
\* same names and any other field values gives the same result for the
\* same arguments.
C10_ProfileFieldsUnused ==
    call.op \in CalcOps
        => \A other \in C10_OtherRegistries(profile_systems) :
             C10_Replay(other, call) = result

\* C10 witness: a custom placement under a registered name returned
\* placements, and a registry differing in that profile's axis_offset,
\* sash_thickness, frame_width, sash_width and description exists.
C10_Witness ==
    /\ call.op = "calculate_custom_placement"
    /\ call.profile_name \in DOMAIN profile_systems
    /\ result.ok
    /\ Len(result.value) = MaxItems
    /\ \E other \in C10_OtherRegistries(profile_systems) :
         LET p == profile_systems[call.profile_name]
             q == other[call.profile_name]
         IN  /\ p.axis_offset # q.axis_offset
             /\ p.sash_thickness # q.sash_thickness
             /\ p.frame_width # q.frame_width
             /\ p.sash_width # q.sash_width
             /\ p.description # q.description


\* C11: symmetric placement with count <= 0 and a registered profile
\* returns an empty list, for both alignments, and does not raise.
C11_NonPositiveCountEmpty ==
    (/\ call.op = "calculate_symmetric_placement"
     /\ call.count <= 0
     /\ call.alignment \in {"horizontal", "vertical"}
     /\ EverRegistered(call.profile_name))
        => result = Ret(<<>>)

\* C11 witness: a negative count, vertical, with a registered profile has
\* returned.
C11_Witness ==
    /\ call.op = "calculate_symmetric_placement"
    /\ call.count < 0
    /\ call.alignment = "vertical"
    /\ EverRegistered(call.profile_name)
    /\ result.ok
    /\ result.value = <<>>


\* an extracted item carries both coordinates
C12_Explicit(hw_item) == Given(hw_item, "x_position") /\ Given(hw_item, "y_position")

\* C12: in calculate_from_pdf_data an item that carries both x_position
\* and y_position (not None, 0 included) yields a placement with exactly
\* those coordinates, its rotation (default 0) and notes (default empty)
\* passed through; its name is not classified, so a list of such items
\* returns whatever the names are.
C12_ExplicitCoordinatesPassThrough ==
    (call.op = "calculate_from_pdf_data" /\ EverRegistered(call.profile_name))
        => /\ (\A i \in 1..Len(call.pdf_hardware_list) :
                  C12_Explicit(call.pdf_hardware_list[i]))
                => result.ok /\ Len(result.value) = Len(call.pdf_hardware_list)
           /\ result.ok
                => \A i \in 1..Len(call.pdf_hardware_list) :
                     LET hw_item == call.pdf_hardware_list[i]
                         placement == result.value[i]
                     IN  C12_Explicit(hw_item)
                           => /\ placement.x = hw_item.x_position
                              /\ placement.y = hw_item.y_position
                              /\ placement.rotation
                                   = (IF "rotation" \in DOMAIN hw_item
                                      THEN hw_item.rotation ELSE Whole(0))
                              /\ placement.notes
                                   = (IF "notes" \in DOMAIN hw_item
                                      THEN hw_item.notes ELSE S_empty)

\* C12 witness: a null-named item at (7, 0) with notes and no rotation
\* was passed through.
C12_Witness ==
    /\ call.op = "calculate_from_pdf_data"
    /\ Len(call.pdf_hardware_list) = 1
    /\ C12_Explicit(call.pdf_hardware_list[1])
    /\ call.pdf_hardware_list[1].name = None
    /\ call.pdf_hardware_list[1].y_position = Whole(0)
    /\ result.ok
    /\ result.value[1].x = Whole(7)
    /\ result.value[1].y = Whole(0)
    /\ result.value[1].rotation = Whole(0)
    /\ result.value[1].notes = S_n


\* C13: in calculate_from_pdf_data an item without explicit coordinates
\* whose name classifies to 'corner' or 'other' (an item without a name
\* included) is placed at the window centre (width/2, height/2) with
\* rotation 0.
C13_PdfFallbackCentre ==
    (call.op = "calculate_from_pdf_data" /\ result.ok)
        => \A i \in 1..Len(call.pdf_hardware_list) :
             LET hw_item == call.pdf_hardware_list[i]
                 placement == result.value[i]
                 hardware_name == IF "name" \in DOMAIN hw_item
                                  THEN hw_item.name ELSE S_empty
                 AtCentre ==
                     /\ SameNumber(placement.x, Percent(50, call.window_width))
                     /\ SameNumber(placement.y, Percent(50, call.window_height))
                     /\ placement.rotation = Whole(0)
             IN  /\ (/\ NoCoordinates(hw_item)
                     /\ IsStr(hardware_name)
                     /\ categorize_hardware_type(hardware_name).value
                            \in {S_corner, S_other})
                      => AtCentre
                 /\ (NoCoordinates(hw_item) /\ "name" \notin DOMAIN hw_item)
                      => AtCentre
                 /\ (NoCoordinates(hw_item) /\ hardware_name = Name_Ugol)
                      => AtCentre

\* C13 witness: "Ugol" (corner) and an item without a name on the 3 x 7
\* window were both placed at (3/2, 7/2).
C13_Witness ==
    /\ call.op = "calculate_from_pdf_data"
    /\ call.window_width = Whole(3)
    /\ call.window_height = Whole(7)
    /\ Len(call.pdf_hardware_list) = 2
    /\ call.pdf_hardware_list[1] = [name |-> Name_Ugol]
    /\ "name" \notin DOMAIN call.pdf_hardware_list[2]
    /\ result.ok
    /\ \A i \in 1..2 :
         /\ result.value[i].x = R(3, 2)
         /\ result.value[i].y = R(7, 2)
         /\ result.value[i].rotation = Whole(0)


\* ---------------------------------------------------------------------------
\* C14.  The classifier gives a name the first category, in the order hinge,
\* handle, lock, sill, corner, one of whose keywords occurs in the name with
\* the case of letters ignored, and 'other' when no keyword occurs; the
\* same name written in upper or in lower case gets the same category.
\* ---------------------------------------------------------------------------
C14_Priority == <<S_hinge, S_handle, S_lock, S_sill, S_corner>>

C14_Keywords ==
    <<{K_petlya, S_hinge, K_sharnir}, {K_ruchka, S_handle, K_knob},
      {K_zamok, S_lock, K_zasov}, {K_otliv, S_sill, K_podokonnik},
      {K_ugol, S_corner}>>

C14_UpperChar(c) ==
    IF c >= 97 /\ c <= 122 THEN c - 32
    ELSE IF c >= 1072 /\ c <= 1103 THEN c - 32
    ELSE IF c >= 1104 /\ c <= 1119 THEN c - 80
    ELSE c

C14_Upper(str) == Str([i \in 1..Len(str.s) |-> C14_UpperChar(str.s[i])])

\* word occurs in name at some position, letters compared without case
C14_Occurs(name, word) ==
    \E k \in 0..(Len(name.s) - Len(word.s)) :
        \A j \in 1..Len(word.s) :
            C14_UpperChar(name.s[k + j]) = C14_UpperChar(word.s[j])

C14_Hits(name) ==
    {i \in 1..Len(C14_Priority) :
        \E word \in C14_Keywords[i] : C14_Occurs(name, word)}

C14_Expected(name) ==
    IF C14_Hits(name) = {} THEN S_other
    ELSE C14_Priority[CHOOSE i \in C14_Hits(name) :
                          \A j \in C14_Hits(name) : i <= j]

C14_CategoryByPriority ==
    (call.op = "_categorize_hardware_type" /\ IsStr(call.hardware_name))
        => /\ result = Ret(C14_Expected(call.hardware_name))
           /\ categorize_hardware_type(C14_Upper(call.hardware_name)) = result
           /\ categorize_hardware_type(Lower(call.hardware_name)) = result

\* a mixed-case name holding a lock and a handle keyword was classified
C14_Witness ==
    /\ call.op = "_categorize_hardware_type"
    /\ call.hardware_name = Name_LockHandle
    /\ {2, 3} \subseteq C14_Hits(call.hardware_name)
    /\ C14_Upper(call.hardware_name) # call.hardware_name
    /\ Lower(call.hardware_name) # call.hardware_name
    /\ result = Ret(S_handle)

\* ---------------------------------------------------------------------------
\* C15.  With a registered profile the sill category gives exactly one
\* placement, the centre of the box with top-left (0, 0.99h) and size
\* (w, 0.01h): x = w/2, y = 0.995h, rotation 0.
\* ---------------------------------------------------------------------------
C15_SillCentre ==
    (/\ call.op = "calculate_hardware_placement"
     /\ call.hardware_type = S_sill
     /\ EverRegistered(call.profile_name))
        => /\ result.ok
           /\ Len(result.value) = 1
           /\ SameNumber(result.value[1].x,
                         RDiv(call.window_width, Whole(2)))
           /\ SameNumber(result.value[1].y,
                         [n |-> 995 * call.window_height.n,
                          d |-> 1000 * call.window_height.d])
           /\ SameNumber(result.value[1].y,
                         RAdd(Percent(99, call.window_height),
                              RDiv(Percent(1, call.window_height),
                                   Whole(2))))
           /\ result.value[1].rotation = Whole(0)

\* the sill of the 1000 x 500 window lies at (500, 497.5)
C15_Witness ==
    /\ call.op = "calculate_hardware_placement"
    /\ call.hardware_type = S_sill
    /\ call.window_width = Whole(1000)
    /\ call.window_height = Whole(500)
    /\ result.ok
    /\ Len(result.value) = 1
    /\ result.value[1].x = Whole(500)
    /\ result.value[1].y = R(995, 2)

\* ---------------------------------------------------------------------------
\* C16.  With a registered profile the handle category gives exactly one
\* placement at (0.5w, 0.75h) and the lock category exactly one placement
\* at (0.95w, 0.5h).
\* ---------------------------------------------------------------------------
C16_At(px, py) ==
    /\ result.ok
    /\ Len(result.value) = 1
    /\ SameNumber(result.value[1].x, Percent(px, call.window_width))
    /\ SameNumber(result.value[1].y, Percent(py, call.window_height))

C16_HandleAndLock ==
    (/\ call.op = "calculate_hardware_placement"
     /\ EverRegistered(call.profile_name))
        => /\ call.hardware_type = S_handle => C16_At(50, 75)
           /\ call.hardware_type = S_lock => C16_At(95, 50)

\* the lock of the 3 x 7 window lies at (2.85, 3.5)
C16_Witness ==
    /\ call.op = "calculate_hardware_placement"
    /\ call.hardware_type = S_lock
    /\ call.window_width = Whole(3)
    /\ call.window_height = Whole(7)
    /\ result.ok
    /\ Len(result.value) = 1
    /\ result.value[1].x = R(57, 20)
    /\ result.value[1].y = R(7, 2)

\* ---------------------------------------------------------------------------
\* C17.  The i-th placement returned by calculate_hardware_placement, counted
\* from 1, has the article  <category>-<i>  and rotation 0, for every
\* category.
\* ---------------------------------------------------------------------------
C17_Article(category, i) == Str(category.s \o <<45, 48 + i>>)

C17_ArticlesNumbered ==
    (call.op = "calculate_hardware_placement" /\ result.ok)
        => \A i \in 1..Len(result.value) :
              /\ i < 10
              /\ result.value[i].article = C17_Article(call.hardware_type, i)
              /\ result.value[i].rotation = Whole(0)

\* the three hinges carry hinge-1, hinge-2, hinge-3
C17_Witness ==
    /\ call.op = "calculate_hardware_placement"
    /\ call.hardware_type = S_hinge
    /\ result.ok
    /\ Len(result.value) = 3
    /\ result.value[1].article = Str(<<104, 105, 110, 103, 101, 45, 49>>)
    /\ result.value[2].article = Str(<<104, 105, 110, 103, 101, 45, 50>>)
    /\ result.value[3].article = Str(<<104, 105, 110, 103, 101, 45, 51>>)

\* ---------------------------------------------------------------------------
\* C18.  A vertical symmetric placement in a w x h window is the horizontal
\* one in an h x w window with x and y of every placement exchanged, articles
\* and names included, for every count; both raise alike for an unknown
\* profile.
\* ---------------------------------------------------------------------------
C18_Exchanged(outcome) ==
    IF outcome.ok
    THEN Ret([k \in DOMAIN outcome.value |->
                [outcome.value[k] EXCEPT !.x = outcome.value[k].y,
                                         !.y = outcome.value[k].x]])
    ELSE outcome

C18_VerticalIsHorizontalSwapped ==
    (call.op = "calculate_symmetric_placement" /\ call.alignment = "vertical")
        => result = C18_Exchanged(
                        calculate_symmetric_placement(
                            profile_systems, call.window_height,
                            call.window_width, call.profile_name,
                            call.hardware_article, call.hardware_name,
                            call.count, "horizontal"))

\* four items spread vertically in the 1000 x 500 window: x = 500 for all,
\* y from 25 to 475
C18_Witness ==
    /\ call.op = "calculate_symmetric_placement"
    /\ call.alignment = "vertical"
    /\ call.count = 4
    /\ call.window_width = Whole(1000)
    /\ call.window_height = Whole(500)
    /\ result.ok
    /\ Len(result.value) = 4
    /\ result.value[1].x = Whole(500)
    /\ result.value[1].y = Whole(25)
    /\ result.value[4].y = Whole(475)
    /\ result.value[4].article = Concat(call.hardware_article,
                                        Str(<<45, 52>>))

\* ---------------------------------------------------------------------------
\* C19.  With a registered profile no calculation method raises, whatever
\* irregular input it is given (unknown category, count <= 0, another
\* alignment, spec entries or extracted items lacking fields or carrying
\* None): a list is returned.
\* Refuted by the code: an extracted item whose name is None and which lacks
\* a coordinate reaches  hardware_name.lower()  and raises AttributeError.
\* ---------------------------------------------------------------------------
C19_NoRaiseWhenRegistered ==
    (call.op \in CalcOps /\ EverRegistered(call.profile_name)) => result.ok

\* the extracted item that reaches the classifier with a name that is no str
C19_NullNameClassified(hw_item) ==
    /\ ~C12_Explicit(hw_item)
    /\ ~IsStr(Get(hw_item, "name", S_empty))

\* what the code does instead: with a registered profile the only raise is
\* the AttributeError of calculate_from_pdf_data on such an item
C19_RaisesOnlyForNullName ==
    (call.op \in CalcOps /\ EverRegistered(call.profile_name))
        => \/ result.ok
           \/ /\ call.op = "calculate_from_pdf_data"
              /\ result = Raise("AttributeError")
              /\ \E i \in 1..Len(call.pdf_hardware_list) :
                    C19_NullNameClassified(call.pdf_hardware_list[i])

\* calculate_from_pdf_data(1000, 500, P, [{'name': None, 'article': 'A'}])
\* with P registered raised AttributeError
C19_NullNameRaised ==
    /\ call.op = "calculate_from_pdf_data"
    /\ EverRegistered(call.profile_name)
    /\ call.window_width = Whole(1000)
    /\ call.window_height = Whole(500)
    /\ call.pdf_hardware_list = <<[name |-> None, article |-> S_A]>>
    /\ result = Raise("AttributeError")

\* ---------------------------------------------------------------------------
\* C20.  The calculation methods leave the profile registry and the template
\* table as they were, whether they return or raise; add_profile_system
\* changes the registry entry of profile.name alone and no template; so the
\* template table has its initial value in every reachable state.
\* ---------------------------------------------------------------------------
C20_Frame ==
    /\ call'.op \in CalcOps
         => /\ profile_systems' = profile_systems
            /\ hardware_templates' = hardware_templates
    /\ call'.op = "add_profile_system"
         => /\ hardware_templates' = hardware_templates
            /\ DOMAIN profile_systems'
                 = DOMAIN profile_systems \cup {call'.profile.name}
            /\ \A name \in DOMAIN profile_systems \ {call'.profile.name} :
                  profile_systems'[name] = profile_systems[name]

C20_CalculationsReadOnly ==
    /\ [](hardware_templates = DefaultTemplates)
    /\ [][C20_Frame]_vars

\* a category without a template was looked up with two profiles registered,
\* and the table still holds the four built-in categories only
C20_Witness ==
    /\ call.op = "calculate_hardware_placement"
    /\ call.hardware_type \notin TemplatedCategories
    /\ result = Ret(<<>>)
    /\ DOMAIN profile_systems = {PN_A, PN_B}
    /\ DOMAIN hardware_templates = TemplatedCategories
    /\ hardware_templates = DefaultTemplates

\* ---------------------------------------------------------------------------
\* C21.  Once add_hardware_component(data) has returned an id, and as long
\* as that id was passed to no update and no delete, get_hardware_component
\* of the id returns a record with that id whose fields equal those data
\* supplied, whatever was added, updated or deleted under other ids.
\* ---------------------------------------------------------------------------
C21_Agrees(row, data) ==
    \A column \in DOMAIN data \cap ColumnSet(HardwareInsertColumns) :
        row[column] = data[column]

C21_AddedComponentReadable ==
    \A id \in DOMAIN db_added :
        LET got == db_get_hardware_component(db_hardware_components, id)
        IN  /\ got.ok
            /\ got.value # None
            /\ got.value.id = id
            /\ got.value.name = db_added[id].name
            /\ C21_Agrees(got.value, db_added[id])
            /\ (call.op = "db.get_hardware_component"
                /\ call.component_id = id) => result = got

\* component 1 is read back as added after component 2 was added and
\* deleted
C21_Witness ==
    /\ call.op = "db.get_hardware_component"
    /\ call.component_id = 1
    /\ 1 \in DOMAIN db_added
    /\ db_sequence["hardware_components"] = 2
    /\ 2 \notin DOMAIN db_hardware_components
    /\ result.ok
    /\ result.value # None
    /\ result.value.article_number = A_TEST001
    /\ result.value.width = Whole(60)

\* ---------------------------------------------------------------------------
\* C22.  When update_hardware_component(id, data) returns for an existing
\* component, the record of id has data's name and data's value (None when
\* absent) in every updatable field, its id and article_number are as
\* before, and every other component's record is as before.  The call
\* returns whenever data carries a name and no unclosed connection holds the
\* write lock; when it raises, no record changes.
\* ---------------------------------------------------------------------------
C22_Step ==
    call'.op = "db.update_hardware_component"
        => LET id == call'.component_id
               data == call'.data
           IN  /\ (result'.ok /\ id \in DOMAIN db_hardware_components)
                   => /\ id \in DOMAIN db_hardware_components'
                      /\ db_hardware_components'[id].name = data.name
                      /\ \A column \in ColumnSet(HardwareUpdateColumns) :
                            db_hardware_components'[id][column]
                                = Get(data, column, None)
                      /\ db_hardware_components'[id].id = id
                      /\ db_hardware_components'[id].article_number
                            = db_hardware_components[id].article_number
                      /\ DOMAIN db_hardware_components'
                            = DOMAIN db_hardware_components
                      /\ \A other \in DOMAIN db_hardware_components \ {id} :
                            db_hardware_components'[other]
                                = db_hardware_components[other]
               /\ ("name" \in DOMAIN data /\ ~db_write_lock) => result'.ok
               /\ ~result'.ok
                   => db_hardware_components' = db_hardware_components

C22_UpdateApplies == [][C22_Step]_vars

\* component 1 was updated with two components stored: it carries the new
\* name and width and its own article, not the one data names
C22_Witness ==
    /\ call.op = "db.update_hardware_component"
    /\ call.component_id = 1
    /\ Get(call.data, "article_number", None) = A_TEST002
    /\ result.ok
    /\ DOMAIN db_hardware_components = {1, 2}
    /\ db_hardware_components[1].name = N_UpdatedHandle
    /\ db_hardware_components[1].width = Whole(65)
    /\ db_hardware_components[1].article_number = A_TEST001
    /\ db_hardware_components[2].name = N_TestHandle

\* ---------------------------------------------------------------------------
\* C23.  delete_hardware_component(id) returns, after it get_hardware_component
\* of id returns None and the records of the other ids are as before; for an
\* id that does not exist it changes nothing and does not raise.
\* Refuted by the code: a call whose execute raised IntegrityError leaves its
\* connection open with the write lock, and until the connection is
\* collected every DELETE, of an id that does not exist too, raises
\* OperationalError (database is locked).
\* ---------------------------------------------------------------------------
C23_Step ==
    call'.op = "db.delete_hardware_component"
        => LET id == call'.component_id
           IN  /\ result'.ok
               /\ db_get_hardware_component(db_hardware_components', id)
                    = Ret(None)
               /\ \A other \in DOMAIN db_hardware_components \ {id} :
                     /\ other \in DOMAIN db_hardware_components'
                     /\ db_hardware_components'[other]
                          = db_hardware_components[other]
               /\ id \notin DOMAIN db_hardware_components
                    => db_hardware_components' = db_hardware_components

C23_DeleteRemoves == [][C23_Step]_vars

\* what the code does instead: the same, but only while no unclosed
\* connection holds the write lock; otherwise OperationalError, no change
C23_LockedStep ==
    call'.op = "db.delete_hardware_component"
        => IF db_write_lock
           THEN /\ result' = Raise("OperationalError")
                /\ db_hardware_components' = db_hardware_components
           ELSE C23_Step

C23_DeleteUnlessLocked == [][C23_LockedStep]_vars

\* add 'TEST-001' twice (the second raises IntegrityError), then delete an
\* id that was never given out: OperationalError
C23_DeleteOfMissingIdRaised ==
    /\ call.op = "db.delete_hardware_component"
    /\ call.component_id = 3
    /\ db_sequence["hardware_components"] = 1
    /\ db_hardware_components[1].article_number = A_TEST001
    /\ db_write_lock
    /\ result = Raise("OperationalError")

\* ---------------------------------------------------------------------------
\* C24.  When add_profile_system(data) has returned an id, the list
\* get_all_profile_systems() returns holds a record with that id and data's
\* name; the list holds every stored profile system once and is ordered by
\* name (ascending by code points, upper case before lower case).
\* ---------------------------------------------------------------------------
C24_Listed == db_get_all_profile_systems(db_profile_systems).value

C24_Ordered(list) ==
    \A i \in 1..Len(list), j \in 1..Len(list) :
        i < j => TextLess(list[i].name, list[j].name)

C24_AddedProfileListed ==
    /\ (call.op = "db.add_profile_system" /\ result.ok)
         => \E i \in 1..Len(C24_Listed) :
               /\ C24_Listed[i].id = result.value
               /\ C24_Listed[i].name = call.data.name
               /\ \A column \in DOMAIN call.data :
                     C24_Listed[i][column] = call.data[column]
    /\ C24_Ordered(C24_Listed)
    /\ {C24_Listed[i] : i \in 1..Len(C24_Listed)}
         = {db_profile_systems[k] : k \in DOMAIN db_profile_systems}
    /\ Len(C24_Listed) = Cardinality(DOMAIN db_profile_systems)
    /\ call.op = "db.get_all_profile_systems" => result = Ret(C24_Listed)

\* 'b' was added first and 'Z' second: the list returned is 'Z' (id 2),
\* 'b' (id 1)
C24_Witness ==
    /\ call.op = "db.get_all_profile_systems"
    /\ result.ok
    /\ Len(result.value) = 2
    /\ result.value[1].name = Str(<<90>>)
    /\ result.value[1].id = 2
    /\ result.value[2].name = Str(<<98>>)
    /\ result.value[2].id = 1

\* ---------------------------------------------------------------------------
\* C25.  update_profile_system(profile_id, data) on a stored profile system
\* returns, and then the record with that id in get_all_profile_systems()
\* has data's name and field values.
\* Refuted by the code: DBManager defines no update_profile_system; the call
\* of test_admin_functionality.py:122 and profile_admin.py:130 raises
\* AttributeError and the record stays as it was.
\* ---------------------------------------------------------------------------
C25_Step ==
    (/\ call'.op = "db.update_profile_system"
     /\ call'.profile_id \in DOMAIN db_profile_systems)
        => /\ result'.ok
           /\ \E i \in 1..Len(db_get_all_profile_systems(db_profile_systems').value) :
                 LET record == db_get_all_profile_systems(db_profile_systems').value[i]
                 IN  /\ record.id = call'.profile_id
                     /\ \A column \in DOMAIN call'.data :
                           record[column] = call'.data[column]

C25_UpdateProfileSucceeds == [][C25_Step]_vars

\* profile system 1, stored as 'b', was to become 'Z': AttributeError, and
\* it is still 'b'
C25_UpdateProfileRaised ==
    /\ call.op = "db.update_profile_system"
    /\ call.profile_id = 1
    /\ Get(call.data, "name", None) = Str(<<90>>)
    /\ 1 \in DOMAIN db_profile_systems
    /\ db_profile_systems[1].name = Str(<<98>>)
    /\ result = Raise("AttributeError")

\* ---------------------------------------------------------------------------
\* C26.  delete_profile_system(profile_id) on a stored profile system
\* returns, and then get_all_profile_systems() holds no record with that id.
\* Refuted by the code: DBManager defines no delete_profile_system; the call
\* of test_admin_functionality.py:152 and profile_admin.py:168 raises
\* AttributeError and the record stays listed.
\* ---------------------------------------------------------------------------
C26_Step ==
    (/\ call'.op = "db.delete_profile_system"
     /\ call'.profile_id \in DOMAIN db_profile_systems)
        => /\ result'.ok
           /\ \A i \in 1..Len(db_get_all_profile_systems(db_profile_systems').value) :
                 db_get_all_profile_systems(db_profile_systems').value[i].id
                     # call'.profile_id

C26_DeleteProfileSucceeds == [][C26_Step]_vars

\* profile system 1 was to be deleted: AttributeError, and it is still
\* stored
C26_DeleteProfileRaised ==
    /\ call.op = "db.delete_profile_system"
    /\ call.profile_id = 1
    /\ 1 \in DOMAIN db_profile_systems
    /\ result = Raise("AttributeError")

\* ---------------------------------------------------------------------------
\* C27.  In calculate_from_pdf_data an item that carries exactly one of
\* x_position and y_position (the other absent or None) is placed as if it
\* carried neither: the placement is the one the item gets with both keys
\* removed, its coordinates are those of the first default placement of its
\* category, or the window centre for a category without a template, and
\* its rotation is 0.
\* ---------------------------------------------------------------------------
C27_OneCoordinate(hw_item) ==
    Given(hw_item, "x_position") # Given(hw_item, "y_position")

C27_Stripped(hw_item) ==
    [key \in DOMAIN hw_item \ {"x_position", "y_position"} |-> hw_item[key]]

C27_SingleCoordinateIgnored ==
    (call.op = "calculate_from_pdf_data" /\ result.ok)
        => \A i \in 1..Len(call.pdf_hardware_list) :
             LET hw_item == call.pdf_hardware_list[i]
                 placement == result.value[i]
                 category == categorize_hardware_type(
                                 Get(hw_item, "name", S_empty)).value
                 fallback ==
                     IF category \in TemplatedCategories
                     THEN C7_FirstDefault(category, call.window_width,
                                          call.window_height)
                     ELSE <<Percent(50, call.window_width),
                            Percent(50, call.window_height)>>
             IN  C27_OneCoordinate(hw_item)
                   => /\ Ret(placement)
                           = PdfItem(profile_systems, hardware_templates,
                                     C27_Stripped(hw_item),
                                     call.window_width, call.window_height,
                                     call.profile_name)
                      /\ SameNumber(placement.x, fallback[1])
                      /\ SameNumber(placement.y, fallback[2])
                      /\ placement.rotation = Whole(0)

\* "Ugol" with y_position 33, x_position None and rotation 45 on
\* 1000 x 500 lies at the centre (500, 250) with rotation 0
C27_Witness ==
    /\ call.op = "calculate_from_pdf_data"
    /\ call.window_width = Whole(1000)
    /\ call.window_height = Whole(500)
    /\ result.ok
    /\ \E i \in 1..Len(call.pdf_hardware_list) :
          /\ Get(call.pdf_hardware_list[i], "y_position", None) = Whole(33)
          /\ Get(call.pdf_hardware_list[i], "x_position", None) = None
          /\ Get(call.pdf_hardware_list[i], "rotation", None) = Whole(45)
          /\ result.value[i].x = Whole(500)
          /\ result.value[i].y = Whole(250)
          /\ result.value[i].rotation = Whole(0)

\* ---------------------------------------------------------------------------
\* C28.  A name registered by add_profile_system stays registered: no step
\* removes a registry entry or stores it under another name, every name ever
\* registered is in the registry, and a calculation called with such a name
\* never raises the unknown-profile error.
\* ---------------------------------------------------------------------------
C28_Step ==
    \A name \in DOMAIN profile_systems :
        /\ name \in DOMAIN profile_systems'
        /\ profile_systems'[name].name = name

C28_RegistrationMonotonic ==
    /\ [][C28_Step]_vars
    /\ [](\A i \in 1..Len(registered) :
             registered[i].name \in DOMAIN profile_systems)
    /\ []((call.op \in CalcOps /\ EverRegistered(call.profile_name))
             => result # Raise("ValueError"))

\* 'A' was registered, then 'B', and a calculation with 'A' returned
C28_Witness ==
    /\ Len(registered) = 2
    /\ registered[1].name = PN_A
    /\ registered[2].name = PN_B
    /\ call.op = "calculate_hardware_placement"
    /\ call.profile_name = PN_A
    /\ result.ok
    /\ Len(result.value) = 3

\* ---------------------------------------------------------------------------
\* C29.  For count >= 2 and a positive window dimension the coordinates
\* distributed by calculate_symmetric_placement are strictly increasing,
\* equally spaced and mirror-symmetric about the window centre:
\* p_i + p_(count-1-i) equals the dimension for every i, and for an odd count
\* the middle item lies exactly at the centre.
\* ---------------------------------------------------------------------------
C29_Case ==
    /\ call.op = "calculate_symmetric_placement"
    /\ call.alignment \in {"horizontal", "vertical"}
    /\ call.count >= 2
    /\ result.ok

C29_Dimension ==
    IF call.alignment = "horizontal" THEN call.window_width
    ELSE call.window_height

C29_P(k) ==
    IF call.alignment = "horizontal" THEN result.value[k].x
    ELSE result.value[k].y

C29_StrictlyIncreasing ==
    \A k \in 1..(call.count - 1) : ~Leq64(C29_P(k + 1), C29_P(k))

\* as stated: the equalities hold of the floats returned
C29_MirrorSymmetric ==
    C29_Case =>
        /\ Len(result.value) = call.count
        /\ C29_StrictlyIncreasing
        /\ \A k \in 1..(call.count - 2) :
               Minus64(C29_P(k + 1), C29_P(k))
                   = Minus64(C29_P(k + 2), C29_P(k + 1))
        /\ \A k \in 1..call.count :
               Plus64(C29_P(k), C29_P(call.count + 1 - k))
                   = FromInt(C29_Dimension)
        /\ call.count % 2 = 1 =>
               C29_P((call.count + 1) \div 2)
                   = Over64(FromInt(C29_Dimension), 2)

\* |x - y| <= dimension * 2^-50
C29_Within(x, y, dimension) ==
    LET e == LowerExponent(x, y)
        a == Aligned(x, e)
        b == Aligned(y, e)
        d == IF BitsLeq(a, b) THEN BitsSub(b, a) ELSE BitsSub(a, b)
    IN  \/ d = <<>>
        \/ IF e + 50 >= 0
           THEN BitsLeq(Zeros(e + 50) \o d, Bits(dimension))
           ELSE BitsLeq(d, Zeros(-(e + 50)) \o Bits(dimension))

\* C29 as it holds of the floats: strictly increasing, and equally spaced
\* and mirror-symmetric up to the rounding of the float operations, every
\* deviation being at most dimension * 2^-50.
C29_MirrorSymmetricUpToRounding ==
    C29_Case =>
        /\ Len(result.value) = call.count
        /\ C29_StrictlyIncreasing
        /\ \A k \in 1..(call.count - 2) :
               C29_Within(Minus64(C29_P(k + 1), C29_P(k)),
                          Minus64(C29_P(k + 2), C29_P(k + 1)),
                          C29_Dimension)
        /\ \A k \in 1..call.count :
               C29_Within(Plus64(C29_P(k), C29_P(call.count + 1 - k)),
                          FromInt(C29_Dimension), C29_Dimension)
        /\ call.count % 2 = 1 =>
               C29_Within(C29_P((call.count + 1) \div 2),
                          Over64(FromInt(C29_Dimension), 2), C29_Dimension)

\* two items along a height of 7: 0.35000000000000003 and 6.6499999999999995,
\* whose sum is not 7.0
C29_Witness ==
    /\ C29_Case
    /\ call.alignment = "vertical"
    /\ call.window_height = 7
    /\ call.count = 2
    /\ Len(result.value) = 2
    /\ Plus64(C29_P(1), C29_P(2)) # FromInt(7)
    /\ C29_Within(Plus64(C29_P(1), C29_P(2)), FromInt(7), 7)

\* ---------------------------------------------------------------------------
\* C30.  calculate_custom_placement and calculate_from_pdf_data return
\* exactly one placement per input entry, in input order: output[i] is derived
\* from input[i] alone and carries its article and name, or the defaults
\* 'HW-<i+1>' and 'Komponent-<i+1>' (Cyrillic) resp. 'N/A' and 'Unknown'; an
\* empty input list yields an empty output list.
\* Refuted by the code for calculate_from_pdf_data: the extracted item of C19
\* (name None, a coordinate lacking) makes the whole call raise
\* AttributeError, so no placement is returned for any entry.
\* ---------------------------------------------------------------------------
C30_Entries ==
    IF call.op = "calculate_custom_placement" THEN call.hardware_specs
    ELSE call.pdf_hardware_list

\* the placement of the entry at index i (from 1), computed from it alone
C30_Single(i) ==
    IF call.op = "calculate_custom_placement"
    THEN CustomItem(call.hardware_specs[i], Zeros(i - 1), call.window_width,
                    call.window_height)[i]
    ELSE PdfItem(profile_systems, hardware_templates,
                 call.pdf_hardware_list[i], call.window_width,
                 call.window_height, call.profile_name).value

C30_DefaultArticle(i) ==
    IF call.op = "calculate_custom_placement"
    THEN Concat(S_HW, IntToStr(i))
    ELSE S_NA

C30_DefaultName(i) ==
    IF call.op = "calculate_custom_placement"
    THEN Concat(S_Komponent, IntToStr(i))
    ELSE S_Unknown

C30_Shape ==
    /\ Len(result.value) = Len(C30_Entries)
    /\ \A i \in 1..Len(C30_Entries) :
          /\ result.value[i] = C30_Single(i)
          /\ result.value[i].article
                = Get(C30_Entries[i], "article", C30_DefaultArticle(i))
          /\ result.value[i].name
                = Get(C30_Entries[i], "name", C30_DefaultName(i))

C30_OnePlacementPerEntry ==
    (/\ call.op \in {"calculate_custom_placement", "calculate_from_pdf_data"}
     /\ EverRegistered(call.profile_name))
        => result.ok /\ C30_Shape

\* what the code does: every list it returns has the stated shape, and with
\* a registered profile it returns one unless an entry is the item of C19
C30_OnePlacementPerEntryReturned ==
    (/\ call.op \in {"calculate_custom_placement", "calculate_from_pdf_data"}
     /\ EverRegistered(call.profile_name))
        => /\ result.ok => C30_Shape
           /\ ~result.ok =>
                 /\ call.op = "calculate_from_pdf_data"
                 /\ result = Raise("AttributeError")
                 /\ \E i \in 1..Len(call.pdf_hardware_list) :
                       C19_NullNameClassified(call.pdf_hardware_list[i])

\* two entries went in, the first with both coordinates, and none came out
C30_EntriesLost ==
    /\ call.op = "calculate_from_pdf_data"
    /\ EverRegistered(call.profile_name)
    /\ Len(call.pdf_hardware_list) = 2
    /\ C12_Explicit(call.pdf_hardware_list[1])
    /\ C19_NullNameClassified(call.pdf_hardware_list[2])
    /\ result = Raise("AttributeError")

\* lists of two entries and the empty list were returned in this shape
C30_Returned ==
    /\ call.op = "calculate_custom_placement"
    /\ result.ok
    /\ Len(result.value) = 2
    /\ result.value[2].article = Concat(S_HW, IntToStr(2))
    /\ C30_Shape
=============================================================================
